---- MODULE Spec2Model ----
(***************************************************************************)
(* Model of the TradeExecuted reconciliation pass of the Gaia Protocol API *)
(* (src/src/sync/persona-fragment-trades.ts, syncPersonaFragmentTrades)    *)
(* together with the sync-status helpers and the D1 tables it writes.      *)
(*                                                                         *)
(* One pass = one invocation of syncPersonaFragmentTrades by the cron      *)
(* handler.  The chain (the log and block-metadata collaborators) and the  *)
(* D1 database are the state; every outcome of a pass is one action.       *)
(***************************************************************************)
EXTENDS Integers, Sequences, FiniteSets, TLC

VARIABLES
    chain,        \* TradeExecuted events the log collaborator returns by now
    syncStatus,   \* table contract_event_sync_status : contract_type -> row
    trades,       \* table persona_fragment_trades    : <<tx_hash, log_index>> -> row
    holders,      \* table persona_fragment_holders   : <<persona, holder>> -> row
    personas,     \* table persona_fragments          : persona -> row
    ohlcv,        \* table persona_fragment_ohlcv_1h  : <<persona, bucket_start>> -> row
    now,          \* wall clock, strftime('%s','now'); one tick per pass
    pass,         \* what the most recent pass read, planned and did
    flight        \* passes two overlapping cron invocations are in the middle of

vars == <<chain, syncStatus, trades, holders, personas, ohlcv, now, pass, flight>>

(***************************************************************************)
(* Bounds of the model                                                     *)
(***************************************************************************)
MaxLogs == 3            \* at most this many events exist on chain
MaxPasses == 3          \* passes (cron ticks) explored
SecondsPerBlock == 6    \* block b carries timestamp b * SecondsPerBlock

\* chain heads the head collaborator may report (any of them at any pass)
Heads == {300, 400, 1300}

\* checkpoint seeded into contract_event_sync_status before the first pass
InitialCheckpoint == 0

(***************************************************************************)
(* Program constants                                                       *)
(***************************************************************************)
CONTRACT_TYPE == "PERSONA_FRAGMENTS"
BLOCK_STEP == 500
BUCKET_SECONDS == 3600

(***************************************************************************)
(* Conversions                                                             *)
(***************************************************************************)
\* bigint.toString(): the decimal text stored in the TEXT columns
ToText(n) == [dec |-> n]

\* BigInt(text): parse the decimal text back
BigInt(s) == s.dec

\* isBuyBool ? 1 : 0
BoolToInt(b) == IF b THEN 1 ELSE 0

\* Math.floor(blockTimestamp / 3600) * 3600
BucketStart(blockTimestamp) == (blockTimestamp \div BUCKET_SECONDS) * BUCKET_SECONDS

(***************************************************************************)
(* The chain: events the log collaborator can return.  Addresses are the   *)
(* checksummed forms viem decodes.  The event of block 800 reports a       *)
(* negative trader balance (malformed upstream data).                      *)
(***************************************************************************)
Ev(b, li, tx, p, t, buy, amt, pr, sup, bal) ==
    [blockNumber |-> b, logIndex |-> li, transactionHash |-> tx,
     persona |-> p, trader |-> t, isBuy |-> buy, amount |-> amt, price |-> pr,
     protocolFee |-> 1, personaFee |-> 1, holdingReward |-> 0,
     supply |-> sup, traderBalance |-> bal]

ChainEvents ==
    { Ev(300, 0, "0xa", "M1", "H1", TRUE,  2, 3, 2, 2),
      Ev(300, 1, "0xa", "M1", "H1", FALSE, 2, 2, 0, 0),
      Ev(400, 0, "0xd", "M1", "H2", FALSE, 1, 1, 0, 0),
      Ev(400, 1, "0xe", "M2", "H1", TRUE,  1, 4, 1, 1),
      Ev(500, 0, "0xg", "M2", "H1", FALSE, 1, 2, 0, 0),
      Ev(800, 0, "0xf", "M1", "H1", FALSE, 3, 4, 0, -1) }

\* block-metadata collaborator: client.getBlock({ blockNumber }).timestamp
GetBlockTimestamp(blockNumber) == blockNumber * SecondsPerBlock

\* All orders in which a finite set can be listed
RECURSIVE ListingsOf(_)
ListingsOf(S) ==
    IF S = {} THEN {<<>>}
    ELSE UNION {{<<x>> \o rest : rest \in ListingsOf(S \ {x})} : x \in S}

\* log collaborator: the events of the chain inside [fromBlock, toBlock]
LogsInRange(fromBlock, toBlock) ==
    { e \in chain : fromBlock <= e.blockNumber /\ e.blockNumber <= toBlock }

(***************************************************************************)
(* Window planning, lines 109-120                                          *)
(***************************************************************************)
\* mutant of PlanToBlock: the clamp to the chain head left out
PlanToBlockUnclamped(lastSyncedBlockNumber, currentBlock) ==
    lastSyncedBlockNumber + BLOCK_STEP

PlanToBlock(lastSyncedBlockNumber, currentBlock) ==
    IF lastSyncedBlockNumber + BLOCK_STEP > currentBlock
    THEN currentBlock
    ELSE lastSyncedBlockNumber + BLOCK_STEP

\* mutant of PlanFromBlock: the window reaches three steps back
PlanFromBlockThreeSteps(toBlock) ==
    IF toBlock - BLOCK_STEP * 3 < 0 THEN 0 ELSE toBlock - BLOCK_STEP * 3

\* mutant of PlanFromBlock: the window holds the block toBlock alone
PlanFromBlockAtToBlock(toBlock) == toBlock

PlanFromBlock(toBlock) ==
    IF toBlock - BLOCK_STEP * 2 < 0 THEN 0 ELSE toBlock - BLOCK_STEP * 2

(***************************************************************************)
(* Table helpers (a table is a function from primary key to row)           *)
(***************************************************************************)
EmptyTable == [k \in {} |-> 0]

Put(t, k, row) == [x \in (DOMAIN t) \cup {k} |-> IF x = k THEN row ELSE t[x]]

Remove(t, k) == [x \in (DOMAIN t) \ {k} |-> t[x]]

\* later-than relation of the fold: (blockNumber, logIndex) lexicographic
Later(b1, l1, b2, l2) == b1 > b2 \/ (b1 = b2 /\ l1 > l2)

(***************************************************************************)
(* 4. First pass over the logs, lines 164-322                              *)
(***************************************************************************)
\* in-memory state of a run before the first log (lines 142-158)
EmptyFold ==
    [blockTimestampCache |-> EmptyTable,
     getBlockCalls |-> <<>>,            \* block numbers client.getBlock was asked for
     tradeStatements |-> <<>>,
     affectedPersonas |-> {},
     holderOrder |-> <<>>,              \* Map insertion order of (persona, holder)
     personaHolderFinalState |-> EmptyTable,
     personaOrder |-> <<>>,             \* Map insertion order of personaSnapshots
     personaSnapshots |-> EmptyTable,
     bucketOrder |-> <<>>,              \* Map insertion order of (persona, bucketStart)
     ohlcvAgg |-> EmptyTable]

\* 4-1: the INSERT OR IGNORE statement of one log, lines 207-231
TradeStatement(log, blockTimestamp) ==
    [op |-> "insert_trade",
     tx_hash |-> log.transactionHash,
     log_index |-> log.logIndex,
     block_number |-> log.blockNumber,
     block_timestamp |-> blockTimestamp,
     persona_address |-> log.persona,
     trader_address |-> log.trader,
     is_buy |-> BoolToInt(log.isBuy),
     amount |-> ToText(log.amount),
     price |-> ToText(log.price),
     protocol_fee |-> ToText(log.protocolFee),
     persona_fee |-> ToText(log.personaFee),
     holding_reward |-> ToText(log.holdingReward),
     supply_after |-> ToText(log.supply),
     trader_balance_after |-> ToText(log.traderBalance)]

\* mutant of HolderReplaces: the last entry iterated wins
HolderReplacesAlways(log, existingHolderState) == TRUE

\* 4-2: the replacement test of the holder state, lines 249-257
HolderReplaces(log, existingHolderState) ==
    \/ log.blockNumber > existingHolderState.lastBlockNumber
    \/ /\ log.blockNumber = existingHolderState.lastBlockNumber
       /\ log.logIndex > existingHolderState.lastLogIndex

\* mutant of SnapshotReplaces: the last entry iterated wins
SnapshotReplacesAlways(log, existingSnapshot) == TRUE

\* 4-3: the replacement test of the persona snapshot, lines 271-279
SnapshotReplaces(log, existingSnapshot) ==
    \/ log.blockNumber > existingSnapshot.lastBlockNumber
    \/ /\ log.blockNumber = existingSnapshot.lastBlockNumber
       /\ log.logIndex > existingSnapshot.lastLogIndex

\* 4-4: a fresh bucket, lines 293-305
NewBucket(log, bucketStart) ==
    LET tradeValue == log.amount * log.price IN
    [bucketStart |-> bucketStart,
     openPrice |-> log.price,
     highPrice |-> log.price,
     lowPrice |-> log.price,
     closePrice |-> log.price,
     volume |-> tradeValue,
     buyVolume |-> IF log.isBuy THEN tradeValue ELSE 0,
     sellVolume |-> IF log.isBuy THEN 0 ELSE tradeValue,
     tradeCount |-> 1]

\* mutant of AddToBucket: the low price is left as the first trade set it
AddToBucketKeepsLow(bucket, log) ==
    LET tradeValue == log.amount * log.price IN
    [bucketStart |-> bucket.bucketStart,
     openPrice |-> bucket.openPrice,
     highPrice |-> IF log.price > bucket.highPrice THEN log.price ELSE bucket.highPrice,
     lowPrice |-> bucket.lowPrice,
     closePrice |-> log.price,
     volume |-> bucket.volume + tradeValue,
     buyVolume |-> IF log.isBuy THEN bucket.buyVolume + tradeValue ELSE bucket.buyVolume,
     sellVolume |-> IF log.isBuy THEN bucket.sellVolume ELSE bucket.sellVolume + tradeValue,
     tradeCount |-> bucket.tradeCount + 1]

\* 4-4: one more trade in a bucket of this batch, lines 306-321
AddToBucket(bucket, log) ==
    LET tradeValue == log.amount * log.price IN
    [bucketStart |-> bucket.bucketStart,
     openPrice |-> bucket.openPrice,
     highPrice |-> IF log.price > bucket.highPrice THEN log.price ELSE bucket.highPrice,
     lowPrice |-> IF log.price < bucket.lowPrice THEN log.price ELSE bucket.lowPrice,
     closePrice |-> log.price,
     volume |-> bucket.volume + tradeValue,
     buyVolume |-> IF log.isBuy THEN bucket.buyVolume + tradeValue ELSE bucket.buyVolume,
     sellVolume |-> IF log.isBuy THEN bucket.sellVolume ELSE bucket.sellVolume + tradeValue,
     tradeCount |-> bucket.tradeCount + 1]

\* mutant of SkipLog: the filter written with < instead of <=
SkipLogStrict(log, lastSyncedBlockNumber) == log.blockNumber < lastSyncedBlockNumber

\* the replay filter of line 170
SkipLog(log, lastSyncedBlockNumber) == log.blockNumber <= lastSyncedBlockNumber

\* mutant of CacheHit: the cache is never consulted
CacheHitNever(blockTimestampCache, blockNumber) == FALSE

\* blockTimestampCache.get(blockNumber) !== undefined, lines 192-193
CacheHit(blockTimestampCache, blockNumber) == blockNumber \in DOMAIN blockTimestampCache

\* the body of the for loop for one log, lines 165-321
FoldLog(f, log, lastSyncedBlockNumber) ==
    IF SkipLog(log, lastSyncedBlockNumber) THEN f
    ELSE
      LET blockNumber == log.blockNumber
          cached == CacheHit(f.blockTimestampCache, blockNumber)
          blockTimestamp == IF cached THEN f.blockTimestampCache[blockNumber]
                            ELSE GetBlockTimestamp(blockNumber)
          hk == <<log.persona, log.trader>>
          newState == [finalBalance |-> log.traderBalance,
                       lastTradePrice |-> log.price,
                       lastTradeIsBuy |-> BoolToInt(log.isBuy),
                       lastBlockNumber |-> blockNumber,
                       lastLogIndex |-> log.logIndex]
          holderKnown == hk \in DOMAIN f.personaHolderFinalState
          snapshotCandidate == [supplyAfter |-> log.supply,
                                lastPrice |-> log.price,
                                lastIsBuy |-> BoolToInt(log.isBuy),
                                lastBlockNumber |-> blockNumber,
                                lastLogIndex |-> log.logIndex,
                                lastTxHash |-> log.transactionHash,
                                lastUpdatedAt |-> blockTimestamp]
          personaKnown == log.persona \in DOMAIN f.personaSnapshots
          bucketStart == BucketStart(blockTimestamp)
          bk == <<log.persona, bucketStart>>
          bucketKnown == bk \in DOMAIN f.ohlcvAgg
      IN
      [blockTimestampCache |-> Put(f.blockTimestampCache, blockNumber, blockTimestamp),
       getBlockCalls |-> IF cached THEN f.getBlockCalls
                         ELSE Append(f.getBlockCalls, blockNumber),
       tradeStatements |-> Append(f.tradeStatements, TradeStatement(log, blockTimestamp)),
       affectedPersonas |-> f.affectedPersonas \cup {log.persona},
       holderOrder |-> IF holderKnown THEN f.holderOrder ELSE Append(f.holderOrder, hk),
       personaHolderFinalState |->
           IF ~holderKnown THEN Put(f.personaHolderFinalState, hk, newState)
           ELSE IF HolderReplaces(log, f.personaHolderFinalState[hk])
                THEN Put(f.personaHolderFinalState, hk, newState)
                ELSE f.personaHolderFinalState,
       personaOrder |-> IF personaKnown THEN f.personaOrder ELSE Append(f.personaOrder, log.persona),
       personaSnapshots |->
           IF ~personaKnown THEN Put(f.personaSnapshots, log.persona, snapshotCandidate)
           ELSE IF SnapshotReplaces(log, f.personaSnapshots[log.persona])
                THEN Put(f.personaSnapshots, log.persona, snapshotCandidate)
                ELSE f.personaSnapshots,
       bucketOrder |-> IF bucketKnown THEN f.bucketOrder ELSE Append(f.bucketOrder, bk),
       ohlcvAgg |->
           IF ~bucketKnown THEN Put(f.ohlcvAgg, bk, NewBucket(log, bucketStart))
           ELSE Put(f.ohlcvAgg, bk, AddToBucket(f.ohlcvAgg[bk], log))]

RECURSIVE FoldFrom(_, _, _)
FoldFrom(f, logs, lastSyncedBlockNumber) ==
    IF logs = <<>> THEN f
    ELSE FoldFrom(FoldLog(f, Head(logs), lastSyncedBlockNumber), Tail(logs), lastSyncedBlockNumber)

\* the whole for loop, line 164
FoldLogs(logs, lastSyncedBlockNumber) == FoldFrom(EmptyFold, logs, lastSyncedBlockNumber)

\* the early-return test of line 326
NothingNew(f) == Len(f.tradeStatements) = 0 /\ f.affectedPersonas = {}

(***************************************************************************)
(* 5.-8. Statement building, lines 334-537                                 *)
(***************************************************************************)
RECURSIVE Flatten(_)
Flatten(ss) == IF ss = <<>> THEN <<>> ELSE Head(ss) \o Flatten(Tail(ss))

\* one holder mutation, lines 337-368
HolderStatement(personaAddress, holderAddress, state) ==
    IF state.finalBalance = 0
    THEN [op |-> "delete_holder",
          persona_address |-> personaAddress,
          holder_address |-> holderAddress]
    ELSE [op |-> "upsert_holder",
          persona_address |-> personaAddress,
          holder_address |-> holderAddress,
          balance |-> ToText(state.finalBalance),
          last_trade_price |-> ToText(state.lastTradePrice),
          last_trade_is_buy |-> state.lastTradeIsBuy]

\* 5. holder mutations in Map iteration order (persona, then holder), lines 334-370
HolderStatements(f) ==
    Flatten([i \in 1..Len(f.personaOrder) |->
        LET p == f.personaOrder[i]
            ks == SelectSeq(f.holderOrder, LAMBDA k : k[1] = p)
        IN [j \in 1..Len(ks) |->
               HolderStatement(p, ks[j][2], f.personaHolderFinalState[ks[j]])]])

\* 6. one persona_fragments upsert per snapshot, lines 375-417
PersonaStatements(f) ==
    [i \in 1..Len(f.personaOrder) |->
        LET p == f.personaOrder[i]
            snapshot == f.personaSnapshots[p]
        IN [op |-> "upsert_persona",
            persona_address |-> p,
            current_supply |-> ToText(snapshot.supplyAfter),
            count_persona |-> p,        \* bound into the COUNT(*) sub-select
            last_price |-> ToText(snapshot.lastPrice),
            last_is_buy |-> snapshot.lastIsBuy,
            last_block_number |-> snapshot.lastBlockNumber,
            last_tx_hash |-> snapshot.lastTxHash,
            last_updated_at |-> snapshot.lastUpdatedAt]]

\* mutant of MergeBucket: the persisted high is not compared, the batch's high stays
MergeBucketBatchHigh(agg, hasExisting, existing) ==
    [finalOpen |-> IF hasExisting THEN BigInt(existing.open_price) ELSE agg.openPrice,
     finalHigh |-> agg.highPrice,
     finalLow |-> IF hasExisting /\ BigInt(existing.low_price) < agg.lowPrice
                  THEN BigInt(existing.low_price) ELSE agg.lowPrice,
     finalClose |-> agg.closePrice,
     finalVolume |-> IF hasExisting THEN agg.volume + BigInt(existing.volume_wei) ELSE agg.volume,
     finalBuyVolume |-> IF hasExisting THEN agg.buyVolume + BigInt(existing.buy_volume_wei)
                        ELSE agg.buyVolume,
     finalSellVolume |-> IF hasExisting THEN agg.sellVolume + BigInt(existing.sell_volume_wei)
                         ELSE agg.sellVolume,
     finalTradeCount |-> IF hasExisting THEN agg.tradeCount + existing.trade_count
                         ELSE agg.tradeCount]

\* mutant of MergeBucket: the persisted open moves down to a lower batch open
MergeBucketLowestOpen(agg, hasExisting, existing) ==
    [finalOpen |-> IF hasExisting /\ BigInt(existing.open_price) < agg.openPrice
                   THEN BigInt(existing.open_price) ELSE agg.openPrice,
     finalHigh |-> IF hasExisting /\ BigInt(existing.high_price) > agg.highPrice
                   THEN BigInt(existing.high_price) ELSE agg.highPrice,
     finalLow |-> IF hasExisting /\ BigInt(existing.low_price) < agg.lowPrice
                  THEN BigInt(existing.low_price) ELSE agg.lowPrice,
     finalClose |-> agg.closePrice,
     finalVolume |-> IF hasExisting THEN agg.volume + BigInt(existing.volume_wei) ELSE agg.volume,
     finalBuyVolume |-> IF hasExisting THEN agg.buyVolume + BigInt(existing.buy_volume_wei)
                        ELSE agg.buyVolume,
     finalSellVolume |-> IF hasExisting THEN agg.sellVolume + BigInt(existing.sell_volume_wei)
                         ELSE agg.sellVolume,
     finalTradeCount |-> IF hasExisting THEN agg.tradeCount + existing.trade_count
                         ELSE agg.tradeCount]

\* mutant of MergeBucket: the batch's open overwrites the persisted open
MergeBucketBatchOpen(agg, hasExisting, existing) ==
    [finalOpen |-> agg.openPrice,
     finalHigh |-> IF hasExisting /\ BigInt(existing.high_price) > agg.highPrice
                   THEN BigInt(existing.high_price) ELSE agg.highPrice,
     finalLow |-> IF hasExisting /\ BigInt(existing.low_price) < agg.lowPrice
                  THEN BigInt(existing.low_price) ELSE agg.lowPrice,
     finalClose |-> agg.closePrice,
     finalVolume |-> IF hasExisting THEN agg.volume + BigInt(existing.volume_wei) ELSE agg.volume,
     finalBuyVolume |-> IF hasExisting THEN agg.buyVolume + BigInt(existing.buy_volume_wei)
                        ELSE agg.buyVolume,
     finalSellVolume |-> IF hasExisting THEN agg.sellVolume + BigInt(existing.sell_volume_wei)
                         ELSE agg.sellVolume,
     finalTradeCount |-> IF hasExisting THEN agg.tradeCount + existing.trade_count
                         ELSE agg.tradeCount]

\* merge of one in-batch aggregate with the row read from the table, lines 453-489;
\* the schema allows NULL prices, the rows written here never carry one
NullPrice == [null |-> TRUE]

MergeBucket(agg, hasExisting, existing) ==
    LET exOpen == hasExisting /\ existing.open_price # NullPrice
        exHigh == hasExisting /\ existing.high_price # NullPrice
        exLow == hasExisting /\ existing.low_price # NullPrice
    IN
    [finalOpen |-> IF exOpen THEN BigInt(existing.open_price) ELSE agg.openPrice,
     finalHigh |-> IF exHigh /\ BigInt(existing.high_price) > agg.highPrice
                   THEN BigInt(existing.high_price) ELSE agg.highPrice,
     finalLow |-> IF exLow /\ BigInt(existing.low_price) < agg.lowPrice
                  THEN BigInt(existing.low_price) ELSE agg.lowPrice,
     finalClose |-> agg.closePrice,
     finalVolume |-> IF hasExisting THEN agg.volume + BigInt(existing.volume_wei)
                     ELSE agg.volume,
     finalBuyVolume |-> IF hasExisting THEN agg.buyVolume + BigInt(existing.buy_volume_wei)
                        ELSE agg.buyVolume,
     finalSellVolume |-> IF hasExisting THEN agg.sellVolume + BigInt(existing.sell_volume_wei)
                         ELSE agg.sellVolume,
     finalTradeCount |-> IF hasExisting THEN agg.tradeCount + existing.trade_count
                         ELSE agg.tradeCount]

\* the bucket upsert of one (persona, bucketStart), lines 491-526; stored is the
\* persona_fragment_ohlcv_1h table as the SELECT of lines 427-451 reads it
OhlcvStatement(bk, agg, stored) ==
    LET hasExisting == bk \in DOMAIN stored
        m == MergeBucket(agg, hasExisting, IF hasExisting THEN stored[bk] ELSE agg)
    IN [op |-> "upsert_ohlcv",
        persona_address |-> bk[1],
        bucket_start |-> bk[2],
        open_price |-> ToText(m.finalOpen),
        high_price |-> ToText(m.finalHigh),
        low_price |-> ToText(m.finalLow),
        close_price |-> ToText(m.finalClose),
        volume_wei |-> ToText(m.finalVolume),
        buy_volume_wei |-> ToText(m.finalBuyVolume),
        sell_volume_wei |-> ToText(m.finalSellVolume),
        trade_count |-> m.finalTradeCount]

\* 7. bucket upserts in Map iteration order (persona, then bucket), lines 422-528
OhlcvStatements(f, stored) ==
    Flatten([i \in 1..Len(f.personaOrder) |->
        LET p == f.personaOrder[i]
            ks == SelectSeq(f.bucketOrder, LAMBDA k : k[1] = p)
        IN [j \in 1..Len(ks) |-> OhlcvStatement(ks[j], f.ohlcvAgg[ks[j]], stored)]])

\* buildSyncStatusStatement (contract-event helper)
BuildSyncStatusStatement(contractType, lastSyncedBlockNumber) ==
    [op |-> "upsert_sync_status",
     contract_type |-> contractType,
     last_synced_block_number |-> lastSyncedBlockNumber]

\* mutant of BatchStatements: the snapshot upserts run before the holder writes
BatchStatementsSnapshotsFirst(f, stored, toBlock) ==
    f.tradeStatements
      \o PersonaStatements(f)
      \o HolderStatements(f)
      \o OhlcvStatements(f, stored)
      \o <<BuildSyncStatusStatement(CONTRACT_TYPE, toBlock)>>

\* mutant of BatchStatements: the checkpoint advance heads the list
BatchStatementsCheckpointFirst(f, stored, toBlock) ==
    <<BuildSyncStatusStatement(CONTRACT_TYPE, toBlock)>>
      \o f.tradeStatements
      \o HolderStatements(f)
      \o PersonaStatements(f)
      \o OhlcvStatements(f, stored)

\* 9. the statement list handed to DB.batch, lines 547-553
BatchStatements(f, stored, toBlock) ==
    f.tradeStatements
      \o HolderStatements(f)
      \o PersonaStatements(f)
      \o OhlcvStatements(f, stored)
      \o <<BuildSyncStatusStatement(CONTRACT_TYPE, toBlock)>>

(***************************************************************************)
(* The D1 database: statement execution and DB.batch                       *)
(***************************************************************************)
\* mutant of InsertTradeOrIgnore: INSERT OR REPLACE
InsertTradeOrReplace(t, s, at) ==
    Put(t, <<s.tx_hash, s.log_index>>,
        [block_number |-> s.block_number,
         block_timestamp |-> s.block_timestamp,
         persona_address |-> s.persona_address,
         trader_address |-> s.trader_address,
         is_buy |-> s.is_buy,
         amount |-> s.amount,
         price |-> s.price,
         protocol_fee |-> s.protocol_fee,
         persona_fee |-> s.persona_fee,
         holding_reward |-> s.holding_reward,
         supply_after |-> s.supply_after,
         trader_balance_after |-> s.trader_balance_after,
         created_at |-> at])

\* INSERT OR IGNORE INTO persona_fragment_trades, lines 209-214 and the schema
InsertTradeOrIgnore(t, s, at) ==
    LET k == <<s.tx_hash, s.log_index>> IN
    IF k \in DOMAIN t THEN t
    ELSE Put(t, k,
             [block_number |-> s.block_number,
              block_timestamp |-> s.block_timestamp,
              persona_address |-> s.persona_address,
              trader_address |-> s.trader_address,
              is_buy |-> s.is_buy,
              amount |-> s.amount,
              price |-> s.price,
              protocol_fee |-> s.protocol_fee,
              persona_fee |-> s.persona_fee,
              holding_reward |-> s.holding_reward,
              supply_after |-> s.supply_after,
              trader_balance_after |-> s.trader_balance_after,
              created_at |-> at])

\* DELETE FROM persona_fragment_holders, lines 343-344
DeleteHolder(h, s) == Remove(h, <<s.persona_address, s.holder_address>>)

\* mutant of UpsertHolder: the written balance is added to the balance read
UpsertHolderAddsDelta(h, s, at) ==
    LET k == <<s.persona_address, s.holder_address>>
        was == IF k \in DOMAIN h THEN BigInt(h[k].balance) ELSE 0
    IN Put(h, k,
           [balance |-> ToText(was + BigInt(s.balance)),
            last_trade_price |-> s.last_trade_price,
            last_trade_is_buy |-> s.last_trade_is_buy,
            updated_at |-> at])

\* INSERT INTO persona_fragment_holders .. ON CONFLICT DO UPDATE, lines 351-359
UpsertHolder(h, s, at) ==
    Put(h, <<s.persona_address, s.holder_address>>,
        [balance |-> s.balance,
         last_trade_price |-> s.last_trade_price,
         last_trade_is_buy |-> s.last_trade_is_buy,
         updated_at |-> at])

\* (SELECT COUNT(*) FROM persona_fragment_holders WHERE persona_address = ?), line 392
HolderCount(h, personaAddress) == Cardinality({k \in DOMAIN h : k[1] = personaAddress})

\* INSERT INTO persona_fragments .. SELECT .. ON CONFLICT DO UPDATE, lines 379-405
UpsertPersona(p, h, s) ==
    Put(p, s.persona_address,
        [current_supply |-> s.current_supply,
         holder_count |-> HolderCount(h, s.count_persona),
         last_price |-> s.last_price,
         last_is_buy |-> s.last_is_buy,
         last_block_number |-> s.last_block_number,
         last_tx_hash |-> s.last_tx_hash,
         last_updated_at |-> s.last_updated_at])

\* INSERT INTO persona_fragment_ohlcv_1h .. ON CONFLICT DO UPDATE, lines 493-513
UpsertOhlcv(o, s) ==
    Put(o, <<s.persona_address, s.bucket_start>>,
        [open_price |-> s.open_price,
         high_price |-> s.high_price,
         low_price |-> s.low_price,
         close_price |-> s.close_price,
         volume_wei |-> s.volume_wei,
         buy_volume_wei |-> s.buy_volume_wei,
         sell_volume_wei |-> s.sell_volume_wei,
         trade_count |-> s.trade_count])

\* mutant of UpsertSyncStatusRow: the conflict clause dropped (INSERT OR IGNORE)
InsertSyncStatusRowOrIgnore(st, s, at) ==
    IF s.contract_type \in DOMAIN st THEN st
    ELSE Put(st, s.contract_type,
             [last_synced_block_number |-> s.last_synced_block_number,
              last_synced_at |-> at])

\* INSERT INTO contract_event_sync_status .. ON CONFLICT DO UPDATE
UpsertSyncStatusRow(st, s, at) ==
    Put(st, s.contract_type,
        [last_synced_block_number |-> s.last_synced_block_number,
         last_synced_at |-> at])

\* one prepared statement run against the database at wall-clock time at
Exec(db, s, at) ==
    CASE s.op = "insert_trade" -> [db EXCEPT !.trades = InsertTradeOrIgnore(db.trades, s, at)]
      [] s.op = "delete_holder" -> [db EXCEPT !.holders = DeleteHolder(db.holders, s)]
      [] s.op = "upsert_holder" -> [db EXCEPT !.holders = UpsertHolder(db.holders, s, at)]
      [] s.op = "upsert_persona" -> [db EXCEPT !.personas = UpsertPersona(db.personas, db.holders, s)]
      [] s.op = "upsert_ohlcv" -> [db EXCEPT !.ohlcv = UpsertOhlcv(db.ohlcv, s)]
      [] s.op = "upsert_sync_status" ->
             [db EXCEPT !.syncStatus = UpsertSyncStatusRow(db.syncStatus, s, at)]

\* env.DB.batch(statements): the statements run in list order inside one transaction
RECURSIVE Batch(_, _, _)
Batch(db, statements, at) ==
    IF statements = <<>> THEN db
    ELSE Batch(Exec(db, Head(statements), at), Tail(statements), at)

\* the two invocations of the scheduled handler that may overlap
Workers == {1, 2}

\* an invocation that has not read the checkpoint row yet
NotStarted == [pc |-> "start", lastSyncedBlockNumber |-> -1, currentBlock |-> -1,
               stored |-> EmptyTable, beganAt |-> -1, readAt |-> -1, doneAt |-> -1]

\* the database as one value
Database == [syncStatus |-> syncStatus, trades |-> trades, holders |-> holders,
             personas |-> personas, ohlcv |-> ohlcv]

\* the database after a successful DB.batch of a pass, line 556
Committed(f, toBlock, at) == Batch(Database, BatchStatements(f, ohlcv, toBlock), at)

(***************************************************************************)
(* The passes                                                              *)
(***************************************************************************)
HasCheckpoint == CONTRACT_TYPE \in DOMAIN syncStatus

\* statusRow.last_synced_block_number, lines 90-103
LastSyncedBlockNumber == syncStatus[CONTRACT_TYPE].last_synced_block_number

\* what a pass read and planned; logs is the set of entries getLogs returned,
\* before is the database as the pass found it
PassRecord(kind, last, currentBlock, fromBlock, toBlock, logs) ==
    [kind |-> kind, lastSyncedBlockNumber |-> last, currentBlock |-> currentBlock,
     fromBlock |-> fromBlock, toBlock |-> toBlock, logs |-> logs, before |-> Database]

NoPass == PassRecord("none", -1, -1, -1, -1, {})

\* the listing of a set of logs in chain order (block number, then log index)
RECURSIVE ChainOrder(_)
ChainOrder(S) ==
    IF S = {} THEN <<>>
    ELSE LET first == CHOOSE e \in S : \A o \in S \ {e} :
                          Later(o.blockNumber, o.logIndex, e.blockNumber, e.logIndex)
         IN <<first>> \o ChainOrder(S \ {first})

\* syncPersonaFragmentTrades as a function of the database it finds: the database
\* a pass that runs to its end leaves, for head currentBlock, wall-clock time at
\* and the window listed in chain order
SyncPersonaFragmentTrades(db, currentBlock, at) ==
    LET last == db.syncStatus[CONTRACT_TYPE].last_synced_block_number
        toBlock == PlanToBlock(last, currentBlock)
        fromBlock == PlanFromBlock(toBlock)
        logs == ChainOrder(LogsInRange(fromBlock, toBlock))
        f == FoldLogs(logs, last)
    IN IF Len(logs) = 0 \/ NothingNew(f)
       THEN [db EXCEPT !.syncStatus =
                UpsertSyncStatusRow(db.syncStatus,
                                    BuildSyncStatusStatement(CONTRACT_TYPE, toBlock), at)]
       ELSE Batch(db, BatchStatements(f, db.ohlcv, toBlock), at)

Init ==
    /\ chain \in {c \in SUBSET ChainEvents : Cardinality(c) <= MaxLogs}
    /\ syncStatus \in {EmptyTable,
                       Put(EmptyTable, CONTRACT_TYPE,
                           [last_synced_block_number |-> InitialCheckpoint,
                            last_synced_at |-> 0])}
    /\ trades = EmptyTable
    /\ holders = EmptyTable
    /\ personas = EmptyTable
    /\ ohlcv = EmptyTable
    /\ now = 0
    /\ pass = NoPass
    /\ flight = [w \in Workers |-> NotStarted]

\* mutant of PassNoCheckpoint: a missing row is taken as checkpoint 0 and created
PassNoCheckpointSeeds ==
    /\ now < MaxPasses
    /\ ~HasCheckpoint
    /\ now' = now + 1
    /\ syncStatus' = UpsertSyncStatusRow(syncStatus,
                         BuildSyncStatusStatement(CONTRACT_TYPE, 0), now + 1)
    /\ pass' = PassRecord("no_checkpoint", -1, -1, -1, -1, {})
    /\ UNCHANGED <<chain, flight, trades, holders, personas, ohlcv>>

\* lines 105-107: no checkpoint row, the pass throws before any collaborator call
PassNoCheckpoint ==
    /\ now < MaxPasses
    /\ ~HasCheckpoint
    /\ now' = now + 1
    /\ pass' = PassRecord("no_checkpoint", -1, -1, -1, -1, {})
    /\ UNCHANGED <<chain, flight, syncStatus, trades, holders, personas, ohlcv>>

\* mutant of PassNoLogs: the early return leaves the checkpoint alone
PassNoLogsKeepsCheckpoint ==
    /\ now < MaxPasses
    /\ HasCheckpoint
    /\ \E currentBlock \in Heads :
         LET last == LastSyncedBlockNumber
             toBlock == PlanToBlock(last, currentBlock)
             fromBlock == PlanFromBlock(toBlock)
             window == LogsInRange(fromBlock, toBlock)
         IN /\ Len(ChainOrder(window)) = 0
            /\ pass' = PassRecord("no_logs", last, currentBlock, fromBlock, toBlock, window)
    /\ now' = now + 1
    /\ UNCHANGED <<chain, flight, syncStatus, trades, holders, personas, ohlcv>>

\* lines 132-136: the window holds no log; upsertSyncStatus advances the checkpoint
PassNoLogs ==
    /\ now < MaxPasses
    /\ HasCheckpoint
    /\ \E currentBlock \in Heads :
         LET last == LastSyncedBlockNumber
             toBlock == PlanToBlock(last, currentBlock)
             fromBlock == PlanFromBlock(toBlock)
             window == LogsInRange(fromBlock, toBlock)
         IN /\ Len(ChainOrder(window)) = 0
            /\ syncStatus' = UpsertSyncStatusRow(syncStatus,
                                 BuildSyncStatusStatement(CONTRACT_TYPE, toBlock), now + 1)
            /\ pass' = PassRecord("no_logs", last, currentBlock, fromBlock, toBlock, window)
    /\ now' = now + 1
    /\ UNCHANGED <<chain, flight, trades, holders, personas, ohlcv>>

\* lines 324-329: every log of the window was filtered; the checkpoint still advances
\* (the order of the listing cannot matter to a fold that keeps nothing)
PassNothingNew ==
    /\ now < MaxPasses
    /\ HasCheckpoint
    /\ \E currentBlock \in Heads :
         LET last == LastSyncedBlockNumber
             toBlock == PlanToBlock(last, currentBlock)
             fromBlock == PlanFromBlock(toBlock)
             window == LogsInRange(fromBlock, toBlock)
             logs == ChainOrder(window)
         IN /\ Len(logs) # 0
            /\ NothingNew(FoldLogs(logs, last))
            /\ syncStatus' = UpsertSyncStatusRow(syncStatus,
                                 BuildSyncStatusStatement(CONTRACT_TYPE, toBlock), now + 1)
            /\ pass' = PassRecord("nothing_new", last, currentBlock, fromBlock, toBlock, window)
    /\ now' = now + 1
    /\ UNCHANGED <<chain, flight, trades, holders, personas, ohlcv>>

\* lines 331-557 for one listing of the window: the database DB.batch leaves
CommitListing(currentBlock, logs) ==
    LET last == LastSyncedBlockNumber
        toBlock == PlanToBlock(last, currentBlock)
    IN Committed(FoldLogs(logs, last), toBlock, now + 1)

\* the entries getLogs returns for the window planned against head currentBlock
Window(currentBlock) ==
    LET toBlock == PlanToBlock(LastSyncedBlockNumber, currentBlock)
    IN LogsInRange(PlanFromBlock(toBlock), toBlock)

\* the orders in which getLogs may list the window.  The loop drops an entry
\* the replay filter catches before it touches any state (lines 170-172), so
\* where such an entry stands is immaterial: they are listed first, in chain
\* order, and the entries that pass the filter follow in every order
WindowListings(currentBlock) ==
    LET last == LastSyncedBlockNumber
        dropped == {e \in Window(currentBlock) : SkipLog(e, last)}
        kept == {e \in Window(currentBlock) : ~SkipLog(e, last)}
    IN {ChainOrder(dropped) \o logs : logs \in ListingsOf(kept)}

\* the pass planned against head currentBlock ends with database db committed
CommitPass(currentBlock, db) ==
    LET last == LastSyncedBlockNumber
        toBlock == PlanToBlock(last, currentBlock)
        fromBlock == PlanFromBlock(toBlock)
    IN /\ syncStatus' = db.syncStatus
       /\ trades' = db.trades
       /\ holders' = db.holders
       /\ personas' = db.personas
       /\ ohlcv' = db.ohlcv
       /\ pass' = PassRecord("committed", last, currentBlock, fromBlock, toBlock,
                             LogsInRange(fromBlock, toBlock))
       /\ now' = now + 1
       /\ UNCHANGED <<chain, flight>>

\* a committing pass (the fold kept at least one log, line 326); getLogs may
\* list the entries of the window in any order
PassCommit ==
    /\ now < MaxPasses
    /\ HasCheckpoint
    /\ \E currentBlock \in Heads :
         /\ \E e \in Window(currentBlock) : ~SkipLog(e, LastSyncedBlockNumber)
         /\ \E db \in {CommitListing(currentBlock, logs) :
                          logs \in WindowListings(currentBlock)} :
              CommitPass(currentBlock, db)

\* a committing pass whose getLogs lists the window in chain order
PassCommitInOrder ==
    /\ now < MaxPasses
    /\ HasCheckpoint
    /\ \E currentBlock \in Heads :
         /\ \E e \in Window(currentBlock) : ~SkipLog(e, LastSyncedBlockNumber)
         /\ \E db \in {CommitListing(currentBlock, ChainOrder(Window(currentBlock)))} :
              CommitPass(currentBlock, db)

\* mutant of FailedBatch: the statements run one by one, outside a batch, so
\* those that ran before the failure stay
FailedBatchPartial(db, statements, applied, at) ==
    Batch(db, SubSeq(statements, 1, applied), at)

\* lines 555-557 when D1 rejects the batch after `applied` statements: the
\* statements were handed over in one DB.batch call, so D1 rolls all of them back
FailedBatch(db, statements, applied, at) == db

\* line 556: DB.batch rejects at some statement; D1 rolls the whole batch back and
\* the pass throws (the order of the listing cannot matter to a rolled-back batch)
PassCommitFails ==
    /\ now < MaxPasses
    /\ HasCheckpoint
    /\ \E currentBlock \in Heads :
         LET last == LastSyncedBlockNumber
             toBlock == PlanToBlock(last, currentBlock)
             fromBlock == PlanFromBlock(toBlock)
             window == LogsInRange(fromBlock, toBlock)
             logs == ChainOrder(window)
         IN \E f \in {FoldLogs(logs, last)} :
              /\ Len(logs) # 0
              /\ ~NothingNew(f)
              /\ \E statements \in {BatchStatements(f, ohlcv, toBlock)} :
                 \E db \in {FailedBatch(Database, statements, applied, now + 1) :
                                applied \in 0..(Len(statements) - 1)} :
                   /\ syncStatus' = db.syncStatus
                   /\ trades' = db.trades
                   /\ holders' = db.holders
                   /\ personas' = db.personas
                   /\ ohlcv' = db.ohlcv
              /\ pass' = PassRecord("commit_failed", last, currentBlock, fromBlock, toBlock, window)
    /\ now' = now + 1
    /\ UNCHANGED <<chain, flight>>

(***************************************************************************)
(* Passes that an external call aborts.  No call of the pass is wrapped in *)
(* a try/catch, so the error leaves syncPersonaFragmentTrades at the call; *)
(* the statements prepared so far exist in memory only.                    *)
(***************************************************************************)
\* mutant of Aborted: the statements run as they are prepared, not in the batch
AbortedAfterEagerWrites(db, prepared, at) == Batch(db, prepared, at)

\* the database when an external call throws with `prepared` statements built:
\* nothing before lines 555-557 (and the early returns) runs a statement
Aborted(db, prepared, at) == db

\* line 109: client.getBlockNumber() throws
PassGetBlockNumberFails ==
    /\ now < MaxPasses
    /\ HasCheckpoint
    /\ \E db \in {Aborted(Database, <<>>, now + 1)} :
         /\ syncStatus' = db.syncStatus
         /\ trades' = db.trades
         /\ holders' = db.holders
         /\ personas' = db.personas
         /\ ohlcv' = db.ohlcv
    /\ pass' = PassRecord("head_failed", LastSyncedBlockNumber, -1, -1, -1, {})
    /\ now' = now + 1
    /\ UNCHANGED <<chain, flight>>

\* lines 125-130: client.getLogs() throws after the window was planned
PassGetLogsFails ==
    /\ now < MaxPasses
    /\ HasCheckpoint
    /\ \E currentBlock \in Heads :
         LET last == LastSyncedBlockNumber
             toBlock == PlanToBlock(last, currentBlock)
             fromBlock == PlanFromBlock(toBlock)
         IN \E db \in {Aborted(Database, <<>>, now + 1)} :
              /\ syncStatus' = db.syncStatus
              /\ trades' = db.trades
              /\ holders' = db.holders
              /\ personas' = db.personas
              /\ ohlcv' = db.ohlcv
              /\ pass' = PassRecord("logs_failed", last, currentBlock, fromBlock, toBlock, {})
    /\ now' = now + 1
    /\ UNCHANGED <<chain, flight>>

\* line 194: client.getBlock() throws at the i-th log of the listing, the first
\* unfiltered log of a block whose timestamp is not cached yet
PassGetBlockFails ==
    /\ now < MaxPasses
    /\ HasCheckpoint
    /\ \E currentBlock \in Heads :
         LET last == LastSyncedBlockNumber
             toBlock == PlanToBlock(last, currentBlock)
             fromBlock == PlanFromBlock(toBlock)
             window == LogsInRange(fromBlock, toBlock)
             logs == ChainOrder(window)
             \* the positions of the listing at which getBlock is called
             lookups == {i \in 1..Len(logs) :
                           /\ ~SkipLog(logs[i], last)
                           /\ ~CacheHit(FoldLogs(SubSeq(logs, 1, i - 1), last).blockTimestampCache,
                                       logs[i].blockNumber)}
         IN   /\ \E db \in {Aborted(Database,
                                      FoldLogs(SubSeq(logs, 1, i - 1), last).tradeStatements,
                                      now + 1) : i \in lookups} :
                   /\ syncStatus' = db.syncStatus
                   /\ trades' = db.trades
                   /\ holders' = db.holders
                   /\ personas' = db.personas
                   /\ ohlcv' = db.ohlcv
              /\ pass' = PassRecord("timestamp_failed", last, currentBlock,
                                    fromBlock, toBlock, window)
    /\ now' = now + 1
    /\ UNCHANGED <<chain, flight>>

\* lines 427-451: the SELECT of the j-th touched bucket throws; the trade,
\* holder and persona statements and j - 1 bucket upserts are prepared
PassBucketReadFails ==
    /\ now < MaxPasses
    /\ HasCheckpoint
    /\ \E currentBlock \in Heads :
         LET last == LastSyncedBlockNumber
             toBlock == PlanToBlock(last, currentBlock)
             fromBlock == PlanFromBlock(toBlock)
             window == LogsInRange(fromBlock, toBlock)
             logs == ChainOrder(window)
         IN \E f \in {FoldLogs(logs, last)} :
              /\ Len(logs) # 0
              /\ ~NothingNew(f)
              /\ \E db \in {Aborted(Database,
                                      f.tradeStatements \o HolderStatements(f)
                                        \o PersonaStatements(f)
                                        \o SubSeq(OhlcvStatements(f, ohlcv), 1, j - 1),
                                      now + 1) : j \in 1..Len(f.bucketOrder)} :
                   /\ syncStatus' = db.syncStatus
                   /\ trades' = db.trades
                   /\ holders' = db.holders
                   /\ personas' = db.personas
                   /\ ohlcv' = db.ohlcv
              /\ pass' = PassRecord("bucket_read_failed", last, currentBlock,
                                    fromBlock, toBlock, window)
    /\ now' = now + 1
    /\ UNCHANGED <<chain, flight>>

\* the log collaborator (client.getLogs, lines 125-130) lags behind the chain:
\* an event of a block the checkpoint has passed was left out of the listings
\* so far and is returned from now on
LogIndexedLate ==
    /\ now < MaxPasses
    /\ HasCheckpoint
    /\ Cardinality(chain) < MaxLogs
    /\ \E e \in ChainEvents \ chain :
         /\ e.blockNumber <= LastSyncedBlockNumber
         /\ chain' = chain \cup {e}
    /\ UNCHANGED <<syncStatus, trades, holders, personas, ohlcv, now, pass, flight>>

PassExternalCallFails ==
    \/ PassGetBlockNumberFails
    \/ PassGetLogsFails
    \/ PassGetBlockFails
    \/ PassBucketReadFails

Next ==
    \/ PassNoCheckpoint
    \/ PassNoLogs
    \/ PassNothingNew
    \/ PassCommit
    \/ PassCommitFails
    \/ PassExternalCallFails

Spec == Init /\ [][Next]_vars

\* the same passes with a log collaborator that lists every window in chain order
NextInOrder ==
    \/ PassNoCheckpoint
    \/ PassNoLogs
    \/ PassNothingNew
    \/ PassCommitInOrder
    \/ PassCommitFails
    \/ PassExternalCallFails

SpecInOrder == Init /\ [][NextInOrder]_vars

\* the same passes with a log collaborator that lags behind the chain
NextLag ==
    \/ Next
    \/ LogIndexedLate

SpecLag == Init /\ [][NextLag]_vars

\* the chain head of line 109 is never below the checkpoint the pass loaded
HeadNotBelowCheckpoint ==
    pass'.currentBlock = -1 \/ pass'.currentBlock >= pass'.lastSyncedBlockNumber

\* the passes of Next against chain heads that never fall below the checkpoint
NextSteadyHead ==
    \/ PassNoCheckpoint /\ HeadNotBelowCheckpoint
    \/ PassNoLogs /\ HeadNotBelowCheckpoint
    \/ PassNothingNew /\ HeadNotBelowCheckpoint
    \/ PassCommit /\ HeadNotBelowCheckpoint
    \/ PassCommitFails /\ HeadNotBelowCheckpoint
    \/ PassExternalCallFails /\ HeadNotBelowCheckpoint

SpecSteadyHead == Init /\ [][NextSteadyHead]_vars

\* the chain head of line 109 is the same at every pass
FixedHead == pass.kind = "none" \/ pass'.currentBlock = pass.currentBlock

\* a configured worker (the checkpoint row exists) before its first pass
InitConfigured == Init /\ HasCheckpoint

\* every pass runs to its end against the same chain head
NextFixedHead ==
    \/ PassNoLogs /\ FixedHead
    \/ PassNothingNew /\ FixedHead
    \/ PassCommit /\ FixedHead

\* a tick of the cron trigger (index.ts, scheduled): one more pass has run
CronTick == now < MaxPasses /\ now' = now + 1

\* the cron trigger keeps firing: while passes remain, another pass runs
SpecFixedHead == InitConfigured /\ [][NextFixedHead]_vars /\ WF_now(CronTick)

(***************************************************************************)
(* Overlapping invocations.  scheduled (index.ts) awaits the pass of one   *)
(* tick, but nothing keeps the next tick's invocation from starting while  *)
(* the previous one is still awaiting a collaborator or the database.  An  *)
(* invocation touches the database three times: the checkpoint SELECT      *)
(* (lines 90-107), the bucket SELECTs (lines 427-451) and DB.batch (line   *)
(* 556) or upsertSyncStatus (lines 134, 327).                              *)
(***************************************************************************)
\* the window and the fold of the pass invocation w is in the middle of
FlightToBlock(w) == PlanToBlock(flight[w].lastSyncedBlockNumber, flight[w].currentBlock)

FlightLogs(w) ==
    ChainOrder(LogsInRange(PlanFromBlock(FlightToBlock(w)), FlightToBlock(w)))

FlightFold(w) == FoldLogs(FlightLogs(w), flight[w].lastSyncedBlockNumber)

\* lines 90-322: invocation w reads the checkpoint row and the chain head,
\* fetches the logs of its window and folds them
OverlapBegin(w) ==
    /\ flight[w].pc = "start"
    /\ HasCheckpoint
    /\ \E currentBlock \in Heads :
         flight' = [flight EXCEPT ![w] =
                       [NotStarted EXCEPT !.pc = "folded",
                                          !.lastSyncedBlockNumber = LastSyncedBlockNumber,
                                          !.currentBlock = currentBlock,
                                          !.beganAt = now]]
    /\ UNCHANGED <<chain, syncStatus, trades, holders, personas, ohlcv, now, pass>>

\* lines 132-136 and 324-329: the window of invocation w held no log, or only
\* filtered ones; upsertSyncStatus writes the planned toBlock
OverlapEarlyReturn(w) ==
    /\ flight[w].pc = "folded"
    /\ Len(FlightLogs(w)) = 0 \/ NothingNew(FlightFold(w))
    /\ syncStatus' = UpsertSyncStatusRow(syncStatus,
                         BuildSyncStatusStatement(CONTRACT_TYPE, FlightToBlock(w)), now + 1)
    /\ now' = now + 1
    /\ flight' = [flight EXCEPT ![w].pc = "done", ![w].doneAt = now + 1]
    /\ UNCHANGED <<chain, trades, holders, personas, ohlcv, pass>>

\* lines 427-451: invocation w SELECTs the persisted rows of the buckets its
\* batch touches (outside the batch, before it is sent)
OverlapReadBuckets(w) ==
    /\ flight[w].pc = "folded"
    /\ Len(FlightLogs(w)) # 0
    /\ ~NothingNew(FlightFold(w))
    /\ flight' = [flight EXCEPT ![w].pc = "merged", ![w].stored = ohlcv, ![w].readAt = now]
    /\ UNCHANGED <<chain, syncStatus, trades, holders, personas, ohlcv, now, pass>>

\* mutant of BucketsRead: the rows are read when the batch runs
BucketsReadInBatch(w) == ohlcv

\* the persisted bucket rows the merge of lines 453-489 of invocation w works on
BucketsRead(w) == flight[w].stored

\* line 556: invocation w sends its batch
OverlapCommit(w) ==
    /\ flight[w].pc = "merged"
    /\ \E db \in {Batch(Database,
                        BatchStatements(FlightFold(w), BucketsRead(w), FlightToBlock(w)),
                        now + 1)} :
         /\ syncStatus' = db.syncStatus
         /\ trades' = db.trades
         /\ holders' = db.holders
         /\ personas' = db.personas
         /\ ohlcv' = db.ohlcv
    /\ now' = now + 1
    /\ flight' = [flight EXCEPT ![w].pc = "done", ![w].doneAt = now + 1]
    /\ UNCHANGED <<chain, pass>>

NextOverlap ==
    \E w \in Workers :
        \/ OverlapBegin(w)
        \/ OverlapEarlyReturn(w)
        \/ OverlapReadBuckets(w)
        \/ OverlapCommit(w)

\* two invocations, each running one pass, in any interleaving of their steps
SpecOverlap == InitConfigured /\ [][NextOverlap]_vars

TypeOK ==
    /\ now \in 0..MaxPasses
    /\ DOMAIN syncStatus \subseteq {CONTRACT_TYPE}

(***************************************************************************)
(* Vocabulary of the properties                                            *)
(***************************************************************************)
\* the most recent pass ran to its end and wrote (the checkpoint alone, or a batch)
PassWrote == pass.kind \in {"no_logs", "nothing_new", "committed"}

KeyOf(e) == <<e.transactionHash, e.logIndex>>

PairOf(e) == <<e.persona, e.trader>>

BucketOf(e) == <<e.persona, BucketStart(GetBlockTimestamp(e.blockNumber))>>

\* the entries of the batch of pass P at blocks after the checkpoint P read
Unfiltered(P) == {e \in P.logs : e.blockNumber > P.lastSyncedBlockNumber}

\* a listing without its entries at blocks <= C
WithoutOld(logs, C) == SelectSeq(logs, LAMBDA e : e.blockNumber > C)

\* the entry of S that is maximal / minimal by (blockNumber, logIndex)
LatestOf(S) ==
    CHOOSE e \in S : \A o \in S \ {e} :
        Later(e.blockNumber, e.logIndex, o.blockNumber, o.logIndex)

EarliestOf(S) ==
    CHOOSE e \in S : \A o \in S \ {e} :
        Later(o.blockNumber, o.logIndex, e.blockNumber, e.logIndex)

HoldersOf(h, m) == {k \in DOMAIN h : k[1] = m}

(***************************************************************************)
(* C1                                                                      *)
(***************************************************************************)
\* C1: the checkpoint a pass writes is never below the checkpoint it read,
\* whatever head the head collaborator reported.
C1_CheckpointNeverDecreases ==
    PassWrote => LastSyncedBlockNumber >= pass.lastSyncedBlockNumber

(***************************************************************************)
(* C2                                                                      *)
(***************************************************************************)
\* C2: overlap safety.  In a pass planned from checkpoint C, for every order of
\* the batch, the fold's write sets (trade inserts, holder final states, market
\* snapshots, bucket aggregates) and the statements built from them are those of
\* the same batch without its entries at blocks <= C.
C2_OverlapSafety ==
    pass.kind \in {"nothing_new", "committed"} =>
        \A l \in ListingsOf(pass.logs) :
            LET C == pass.lastSyncedBlockNumber
                whole == FoldLogs(l, C)
                pruned == FoldLogs(WithoutOld(l, C), C)
            IN /\ whole = pruned
               /\ BatchStatements(whole, pass.before.ohlcv, pass.toBlock)
                    = BatchStatements(pruned, pass.before.ohlcv, pass.toBlock)

\* a committed pass whose batch held an entry at exactly the checkpoint block
C2_Witness ==
    /\ pass.kind = "committed"
    /\ \E e \in pass.logs : e.blockNumber = pass.lastSyncedBlockNumber

(***************************************************************************)
(* C3                                                                      *)
(***************************************************************************)
\* C3: trade insertion is insert-if-absent on (txHash, logIndex).  A pass never
\* removes or changes a TradeRecord that existed before it; after a committed
\* pass every unfiltered entry has its record, and feeding the batch's trade
\* inserts once more, at a later time, leaves the TradeRecord table as it is.
C3_TradeInsertIfAbsent ==
    /\ \A k \in DOMAIN pass.before.trades :
         k \in DOMAIN trades /\ trades[k] = pass.before.trades[k]
    /\ pass.kind = "committed" =>
         /\ \A e \in Unfiltered(pass) : KeyOf(e) \in DOMAIN trades
         /\ \A l \in ListingsOf(pass.logs) :
              Batch(Database, FoldLogs(l, pass.lastSyncedBlockNumber).tradeStatements,
                    now + 1).trades = trades

\* a committed pass folded an entry whose TradeRecord an earlier pass had inserted
C3_Witness ==
    /\ pass.kind = "committed"
    /\ \E e \in Unfiltered(pass) : KeyOf(e) \in DOMAIN pass.before.trades

(***************************************************************************)
(* C4                                                                      *)
(***************************************************************************)
TouchedPairs(P) == {PairOf(e) : e \in Unfiltered(P)}

EntriesOfPair(P, pr) == {e \in Unfiltered(P) : PairOf(e) = pr}

\* the holder row of pair pr is what entry m reports (no row for balance 0)
HolderRowIs(pr, m) ==
    IF m.traderBalance = 0 THEN pr \notin DOMAIN holders
    ELSE /\ pr \in DOMAIN holders
         /\ BigInt(holders[pr].balance) = m.traderBalance
         /\ BigInt(holders[pr].last_trade_price) = m.price
         /\ holders[pr].last_trade_is_buy = BoolToInt(m.isBuy)

\* C4: after a committed pass, for every (market, holder) touched by the
\* unfiltered entries, the holder row carries the balance, price and direction of
\* the pair's entry maximal by (blockNumber, logIndex), whatever the order of the
\* batch, and every order of the batch yields exactly one holder write per pair.
C4_HolderLatestWins ==
    pass.kind = "committed" =>
        /\ \A pr \in TouchedPairs(pass) : HolderRowIs(pr, LatestOf(EntriesOfPair(pass, pr)))
        /\ \A l \in ListingsOf(pass.logs) :
             LET hs == HolderStatements(FoldLogs(l, pass.lastSyncedBlockNumber))
             IN /\ Len(hs) = Cardinality(TouchedPairs(pass))
                /\ \A pr \in TouchedPairs(pass) :
                     \E i \in 1..Len(hs) :
                        <<hs[i].persona_address, hs[i].holder_address>> = pr

\* a committed pass folded two entries of one pair that share a block
C4_Witness ==
    /\ pass.kind = "committed"
    /\ \E pr \in TouchedPairs(pass) : \E x, y \in EntriesOfPair(pass, pr) :
         x # y /\ x.blockNumber = y.blockNumber /\ x.traderBalance # y.traderBalance

(***************************************************************************)
(* C5                                                                      *)
(***************************************************************************)
TouchedMarkets(P) == {e.persona : e \in Unfiltered(P)}

EntriesOfMarket(P, m) == {e \in Unfiltered(P) : e.persona = m}

\* C5: after a committed pass, every market touched by the unfiltered entries
\* has a snapshot whose supply, last price, direction, block number and tx hash
\* are those of the market's entry maximal by (blockNumber, logIndex), whatever
\* the order of the batch, and every order yields exactly one snapshot upsert
\* per touched market.
C5_SnapshotLatestWins ==
    pass.kind = "committed" =>
        /\ \A m \in TouchedMarkets(pass) :
             LET e == LatestOf(EntriesOfMarket(pass, m))
             IN /\ m \in DOMAIN personas
                /\ BigInt(personas[m].current_supply) = e.supply
                /\ BigInt(personas[m].last_price) = e.price
                /\ personas[m].last_is_buy = BoolToInt(e.isBuy)
                /\ personas[m].last_block_number = e.blockNumber
                /\ personas[m].last_tx_hash = e.transactionHash
        /\ \A l \in ListingsOf(pass.logs) :
             LET ps == PersonaStatements(FoldLogs(l, pass.lastSyncedBlockNumber))
             IN /\ Len(ps) = Cardinality(TouchedMarkets(pass))
                /\ \A m \in TouchedMarkets(pass) :
                     \E i \in 1..Len(ps) : ps[i].persona_address = m

\* a committed pass folded entries of two blocks (and two of one block) of a market
C5_Witness ==
    /\ pass.kind = "committed"
    /\ \E m \in TouchedMarkets(pass) : \E x, y, z \in EntriesOfMarket(pass, m) :
         x.blockNumber = y.blockNumber /\ x.logIndex < y.logIndex
            /\ z.blockNumber > y.blockNumber

(***************************************************************************)
(* C6                                                                      *)
(***************************************************************************)
\* C6: holder count consistency.  In every state, every market with a snapshot
\* row has holder_count = the number of its HolderBalance rows; so a committed
\* pass that only removes one holder row of a market lowers its holder_count by
\* exactly 1, and one that only adds one raises it by exactly 1.
C6_HolderCountConsistent ==
    /\ \A m \in DOMAIN personas :
         personas[m].holder_count = Cardinality(HoldersOf(holders, m))
    /\ pass.kind = "committed" =>
         \A m \in DOMAIN pass.before.personas :
            LET was == HoldersOf(pass.before.holders, m)
                is == HoldersOf(holders, m)
            IN /\ (is \subseteq was /\ Cardinality(was \ is) = 1) =>
                     personas[m].holder_count = pass.before.personas[m].holder_count - 1
               /\ (was \subseteq is /\ Cardinality(is \ was) = 1) =>
                     personas[m].holder_count = pass.before.personas[m].holder_count + 1

\* a committed pass removed the last holder of a market that had a snapshot row
C6_Witness ==
    /\ pass.kind = "committed"
    /\ \E m \in DOMAIN pass.before.personas :
         /\ Cardinality(HoldersOf(pass.before.holders, m)) = 1
         /\ HoldersOf(holders, m) = {}
         /\ personas[m].holder_count = 0

(***************************************************************************)
(* C7 (checked under SpecInOrder: every batch is listed in chain order)    *)
(***************************************************************************)
\* the bucket row a single pass over the entries S, listed in chain order, writes
\* for bucket bk into an empty table
SinglePassRow(S, bk) ==
    LET f == FoldLogs(ChainOrder(S), -1)
    IN UpsertOhlcv(EmptyTable, OhlcvStatement(bk, f.ohlcvAgg[bk], EmptyTable))[bk]

\* C7: OHLCV accumulation law.  When the trades of one (market, hour) are folded
\* in two sequential passes (the first K before the checkpoint of the second pass,
\* the rest after it), the merged bucket equals, field by field, the bucket a
\* single pass over all N trades writes, and its open is the very first trade's
\* price; a bucket that one pass creates has the first trade's price as open too.
C7_OhlcvAccumulation ==
    pass.kind = "committed" =>
        \A bk \in {BucketOf(e) : e \in Unfiltered(pass)} :
            LET rest == {e \in Unfiltered(pass) : BucketOf(e) = bk}
                first == {e \in chain : KeyOf(e) \in DOMAIN pass.before.trades
                                          /\ BucketOf(e) = bk}
            IN /\ (/\ first # {}
                   /\ bk \in DOMAIN pass.before.ohlcv
                   /\ pass.before.ohlcv[bk] = SinglePassRow(first, bk)
                   /\ \A x \in first : x.blockNumber <= pass.lastSyncedBlockNumber)
                  => /\ ohlcv[bk] = SinglePassRow(first \cup rest, bk)
                     /\ BigInt(ohlcv[bk].open_price) = EarliestOf(first \cup rest).price
               /\ (first = {} /\ bk \notin DOMAIN pass.before.ohlcv)
                  => /\ ohlcv[bk] = SinglePassRow(rest, bk)
                     /\ BigInt(ohlcv[bk].open_price) = EarliestOf(rest).price

\* a second pass merged new trades into a bucket an earlier pass had written,
\* and the new close, high or low differs from the open
C7_Witness ==
    /\ pass.kind = "committed"
    /\ \E bk \in DOMAIN pass.before.ohlcv :
         /\ \E e \in Unfiltered(pass) : BucketOf(e) = bk
         /\ \A x \in chain : (KeyOf(x) \in DOMAIN pass.before.trades /\ BucketOf(x) = bk)
                                => x.blockNumber <= pass.lastSyncedBlockNumber
         /\ ohlcv[bk].trade_count >= 3
         /\ ohlcv[bk].open_price # ohlcv[bk].close_price

(***************************************************************************)
(* C8                                                                      *)
(***************************************************************************)
\* C8: no-op forward progress.  A pass that ran to its end on a window with no
\* log, or with logs at blocks <= C only, set the checkpoint to the planned
\* toBlock and left every trade, holder, snapshot and bucket row as it was.
C8_NoOpForwardProgress ==
    (PassWrote /\ Unfiltered(pass) = {}) =>
        /\ HasCheckpoint
        /\ LastSyncedBlockNumber = pass.toBlock
        /\ trades = pass.before.trades
        /\ holders = pass.before.holders
        /\ personas = pass.before.personas
        /\ ohlcv = pass.before.ohlcv

\* a pass over a window whose logs were all filtered moved the checkpoint
C8_Witness ==
    /\ pass.kind = "nothing_new"
    /\ pass.logs # {}
    /\ trades # EmptyTable
    /\ LastSyncedBlockNumber = pass.toBlock
    /\ pass.toBlock # pass.lastSyncedBlockNumber

WritesPresent(P) ==
    /\ \A e \in Unfiltered(P) : KeyOf(e) \in DOMAIN trades
    /\ \A pr \in TouchedPairs(P) : HolderRowIs(pr, LatestOf(EntriesOfPair(P, pr)))
    /\ \A m \in TouchedMarkets(P) :
         /\ m \in DOMAIN personas
         /\ personas[m].last_tx_hash = LatestOf(EntriesOfMarket(P, m)).transactionHash
    /\ \A e \in Unfiltered(P) : BucketOf(e) \in DOMAIN ohlcv

\* C10: atomic commit.  A pass with unfiltered entries whose commit fails leaves
\* every table and the checkpoint as they were, and the checkpoint is not its
\* toBlock; a pass that committed left the checkpoint at its toBlock together
\* with all its folded writes.
C10_AtomicCommit ==
    /\ pass.kind = "commit_failed" =>
         /\ Database = pass.before
         /\ LastSyncedBlockNumber # pass.toBlock
    /\ pass.kind = "committed" =>
         /\ LastSyncedBlockNumber = pass.toBlock
         /\ WritesPresent(pass)

\* a commit failed in a pass that had folded writes for existing and new rows
C10_Witness ==
    /\ pass.kind = "commit_failed"
    /\ Cardinality(Unfiltered(pass)) >= 2
    /\ trades # EmptyTable

(***************************************************************************)
(* C11                                                                     *)
(***************************************************************************)
\* C11: configuration error.  A pass that finds no checkpoint row fails before
\* it asks for the chain head or for logs, leaves every table as it was and
\* creates no checkpoint row; and no pass of another kind runs without a row.
C11_ConfigurationError ==
    /\ pass.kind = "no_checkpoint" =>
         /\ pass.currentBlock = -1
         /\ pass.logs = {}
         /\ Database = pass.before
         /\ ~HasCheckpoint
    /\ (pass.kind # "none" /\ CONTRACT_TYPE \notin DOMAIN pass.before.syncStatus) =>
         pass.kind = "no_checkpoint"

\* twice in a row a pass found no checkpoint row while the chain had events
C11_Witness ==
    /\ pass.kind = "no_checkpoint"
    /\ now >= 2
    /\ chain # {}
    /\ ~HasCheckpoint

(***************************************************************************)
(* C12                                                                     *)
(***************************************************************************)
ExternalFailures == {"head_failed", "logs_failed", "timestamp_failed", "bucket_read_failed"}

\* C12: transient external failure.  When the chain-head call, the log fetch, a
\* block-timestamp lookup or a persisted-bucket read fails, the pass has written
\* nothing: every table is as the pass found it and the checkpoint keeps the
\* value the pass read.
C12_ExternalFailureWritesNothing ==
    pass.kind \in ExternalFailures =>
        /\ Database = pass.before
        /\ HasCheckpoint
        /\ LastSyncedBlockNumber = pass.lastSyncedBlockNumber

\* a bucket read failed in a pass that had folded two or more new entries, one
\* of them into a bucket an earlier pass had written
C12_Witness ==
    /\ pass.kind = "bucket_read_failed"
    /\ Cardinality(Unfiltered(pass)) >= 2
    /\ \E e \in Unfiltered(pass) : BucketOf(e) \in DOMAIN ohlcv

(***************************************************************************)
(* C13                                                                     *)
(***************************************************************************)
Min(a, b) == IF a <= b THEN a ELSE b

Max(a, b) == IF a >= b THEN a ELSE b

\* the pass got as far as planning its window
PassPlanned == pass.currentBlock # -1

\* checkpoints and heads around the multiples of the step
PlannerGrid == {0, 1, 499, 500, 501, 999, 1000, 1001, 1499, 1500, 1501, 2000}

\* [fromBlock, toBlock] is the window the Window Planner contract gives for C and H
PlanIsRight(C, H, fromBlock, toBlock) ==
    /\ toBlock = Min(C + BLOCK_STEP, H)
    /\ fromBlock = Max(toBlock - 2 * BLOCK_STEP, 0)
    /\ 0 <= fromBlock
    /\ fromBlock <= toBlock
    /\ toBlock <= H
    /\ toBlock - fromBlock <= 2 * BLOCK_STEP

\* C13: for every checkpoint C >= 0 and head H >= 0 (those the passes meet and
\* those of the grid) the planned window is toBlock = min(C + STEP, H),
\* fromBlock = max(toBlock - 2*STEP, 0), with 0 <= fromBlock <= toBlock <= H and
\* toBlock - fromBlock <= 2*STEP.
C13_WindowPlanner ==
    /\ PassPlanned =>
         PlanIsRight(pass.lastSyncedBlockNumber, pass.currentBlock,
                     pass.fromBlock, pass.toBlock)
    /\ now = 0 =>      \* the grid does not depend on the state: checked once
         \A C \in PlannerGrid : \A H \in PlannerGrid :
            PlanIsRight(C, H, PlanFromBlock(PlanToBlock(C, H)), PlanToBlock(C, H))

\* a pass whose toBlock was clamped to the head and whose fromBlock was not
\* clamped to 0
C13_Witness ==
    /\ PassPlanned
    /\ pass.toBlock = pass.currentBlock
    /\ pass.toBlock < pass.lastSyncedBlockNumber + BLOCK_STEP
    /\ pass.fromBlock > 0

(***************************************************************************)
(* C14                                                                     *)
(***************************************************************************)
\* the blocks of a window planned from checkpoint C that are at or below C
Rescanned(C, fromBlock, toBlock) == fromBlock .. Min(C, toBlock)

\* C14 as stated: with H >= C the planned window re-scans at most STEP blocks
\* at or below the checkpoint.
C14_RescanAtMostStep ==
    (PassPlanned /\ pass.currentBlock >= pass.lastSyncedBlockNumber) =>
        Cardinality(Rescanned(pass.lastSyncedBlockNumber, pass.fromBlock, pass.toBlock))
            <= BLOCK_STEP

\* the re-scan bound that holds of the planner for checkpoint C and head H >= C
RescanBound(C, H, fromBlock, toBlock) ==
    /\ Cardinality(Rescanned(C, fromBlock, toBlock)) <= 2 * BLOCK_STEP + 1
    /\ H >= C + BLOCK_STEP =>
         Cardinality(Rescanned(C, fromBlock, toBlock)) <= BLOCK_STEP + 1

\* C14 amended: with H >= C the planned window re-scans at most STEP + 1 blocks
\* at or below the checkpoint when the head is at least STEP ahead of it, and at
\* most 2*STEP + 1 blocks when the head is closer (or equal) to the checkpoint.
C14_RescanBounded ==
    /\ (PassPlanned /\ pass.currentBlock >= pass.lastSyncedBlockNumber) =>
         RescanBound(pass.lastSyncedBlockNumber, pass.currentBlock,
                     pass.fromBlock, pass.toBlock)
    /\ now = 0 =>      \* the grid does not depend on the state: checked once
         \A C \in PlannerGrid : \A H \in {h \in PlannerGrid : h >= C} :
            RescanBound(C, H, PlanFromBlock(PlanToBlock(C, H)), PlanToBlock(C, H))

\* a pass whose head was less than STEP ahead of its checkpoint re-scanned more
\* than STEP + 1 blocks
C14_Witness ==
    /\ PassPlanned
    /\ pass.currentBlock >= pass.lastSyncedBlockNumber
    /\ pass.currentBlock < pass.lastSyncedBlockNumber + BLOCK_STEP
    /\ Cardinality(Rescanned(pass.lastSyncedBlockNumber, pass.fromBlock, pass.toBlock))
           > BLOCK_STEP + 1

(***************************************************************************)
(* C15                                                                     *)
(***************************************************************************)
\* C15: indexing-lag healing.  After a pass that ran to its end, every entry the
\* log collaborator returned for its window is folded into persisted state: its
\* TradeRecord exists and its bucket has a row (also an entry at a block the
\* checkpoint had already passed when the collaborator first returned it).
C15_LateLogHealed ==
    PassWrote =>
        \A e \in pass.logs :
            /\ KeyOf(e) \in DOMAIN trades
            /\ BucketOf(e) \in DOMAIN ohlcv

(***************************************************************************)
(* C16 (checked under SpecInOrder: the log source lists in chain order)    *)
(***************************************************************************)
Aborts == ExternalFailures \cup {"commit_failed"}

\* a row without its wall-clock column
WithoutColumn(row, col) == [c \in (DOMAIN row) \ {col} |-> row[c]]

\* a database without the wall-clock columns, which carry the time of the run
Content(db) ==
    [syncStatus |-> [k \in DOMAIN db.syncStatus |->
                        WithoutColumn(db.syncStatus[k], "last_synced_at")],
     trades |-> [k \in DOMAIN db.trades |-> WithoutColumn(db.trades[k], "created_at")],
     holders |-> [k \in DOMAIN db.holders |-> WithoutColumn(db.holders[k], "updated_at")],
     personas |-> db.personas,
     ohlcv |-> db.ohlcv]

\* C16: recovery by re-run.  An aborted pass (external failure or failed commit)
\* leaves the persisted state as it found it, and a next pass that runs to its
\* end against the same head and the same log source leaves the trades, holders,
\* snapshots, buckets and checkpoint that a successful run of the aborted pass,
\* on the state the aborted pass found, would have left.
C16_RecoveryByRerun ==
    [][(/\ pass.kind \in Aborts
        /\ pass'.kind \in {"no_logs", "nothing_new", "committed"}
        /\ pass.currentBlock \in {-1, pass'.currentBlock})
       => /\ Database = pass.before
          /\ Content(Database')
               = Content(SyncPersonaFragmentTrades(pass.before, pass'.currentBlock, now))]_vars

\* a pass committed new entries right after a pass that aborted (the checkpoint
\* row it found was not written at the previous tick)
C16_Witness ==
    /\ pass.kind = "committed"
    /\ now >= 2
    /\ pass.before.syncStatus[CONTRACT_TYPE].last_synced_at < now - 1
    /\ pass.before.trades # EmptyTable
    /\ Cardinality(Unfiltered(pass)) >= 2

RecordsOfBucket(bk) ==
    {k \in DOMAIN trades : /\ trades[k].persona_address = bk[1]
                           /\ BucketStart(trades[k].block_timestamp) = bk[2]}

\* sum of amount * price over the TradeRecords with keys in K
RECURSIVE ValueOfRecords(_)
ValueOfRecords(K) ==
    IF K = {} THEN 0
    ELSE LET k == CHOOSE x \in K : TRUE
         IN BigInt(trades[k].amount) * BigInt(trades[k].price) + ValueOfRecords(K \ {k})

\* C18: no double counting.  In every state, every OHLCV bucket has trade_count =
\* the number of TradeRecords of its market and hour, and volume, buy volume and
\* sell volume = the sums of amount * price over those records (all, buys, sells).
C18_NoDoubleCounting ==
    \A bk \in DOMAIN ohlcv :
        LET K == RecordsOfBucket(bk)
        IN /\ ohlcv[bk].trade_count = Cardinality(K)
           /\ BigInt(ohlcv[bk].volume_wei) = ValueOfRecords(K)
           /\ BigInt(ohlcv[bk].buy_volume_wei)
                = ValueOfRecords({k \in K : trades[k].is_buy = 1})
           /\ BigInt(ohlcv[bk].sell_volume_wei)
                = ValueOfRecords({k \in K : trades[k].is_buy = 0})

(***************************************************************************)
(* C19                                                                     *)
(***************************************************************************)
TouchedBuckets(P) == {BucketOf(e) : e \in Unfiltered(P)}

\* statement s carries the merge of batch aggregate agg with the rows of stored
MergedAsResolved(s, bk, agg, stored) ==
    IF bk \in DOMAIN stored
    THEN LET row == stored[bk]
         IN /\ s.open_price = row.open_price
            /\ BigInt(s.high_price) = Max(BigInt(row.high_price), agg.highPrice)
            /\ BigInt(s.low_price) = Min(BigInt(row.low_price), agg.lowPrice)
            /\ BigInt(s.close_price) = agg.closePrice
            /\ BigInt(s.volume_wei) = BigInt(row.volume_wei) + agg.volume
            /\ BigInt(s.buy_volume_wei) = BigInt(row.buy_volume_wei) + agg.buyVolume
            /\ BigInt(s.sell_volume_wei) = BigInt(row.sell_volume_wei) + agg.sellVolume
            /\ s.trade_count = row.trade_count + agg.tradeCount
    ELSE /\ BigInt(s.open_price) = agg.openPrice
         /\ BigInt(s.high_price) = agg.highPrice
         /\ BigInt(s.low_price) = agg.lowPrice
         /\ BigInt(s.close_price) = agg.closePrice
         /\ BigInt(s.volume_wei) = agg.volume
         /\ BigInt(s.buy_volume_wei) = agg.buyVolume
         /\ BigInt(s.sell_volume_wei) = agg.sellVolume
         /\ s.trade_count = agg.tradeCount

\* C19: Bucket Merge Resolver.  In a committed pass, for every order of the
\* batch, exactly one bucket upsert is emitted per touched (market, bucket); where
\* a persisted row exists it carries the persisted open, the max of the highs,
\* the min of the lows, the batch close and persisted + batch volumes and trade
\* count, and where none exists it carries the batch aggregate unchanged; the
\* rows the pass left are those of one such order.
C19_BucketMergeResolver ==
    pass.kind = "committed" =>
        /\ \A l \in ListingsOf(pass.logs) :
             LET f == FoldLogs(l, pass.lastSyncedBlockNumber)
                 os == OhlcvStatements(f, pass.before.ohlcv)
             IN /\ Len(os) = Cardinality(TouchedBuckets(pass))
                /\ \A bk \in TouchedBuckets(pass) :
                     \E i \in 1..Len(os) :
                        /\ <<os[i].persona_address, os[i].bucket_start>> = bk
                        /\ MergedAsResolved(os[i], bk, f.ohlcvAgg[bk], pass.before.ohlcv)
        /\ \E l \in ListingsOf(pass.logs) :
             \A bk \in TouchedBuckets(pass) :
                /\ bk \in DOMAIN ohlcv
                /\ MergedAsResolved(ohlcv[bk], bk,
                       FoldLogs(l, pass.lastSyncedBlockNumber).ohlcvAgg[bk], pass.before.ohlcv)
        /\ \A bk \in DOMAIN pass.before.ohlcv :
             bk \notin TouchedBuckets(pass) =>
                bk \in DOMAIN ohlcv /\ ohlcv[bk] = pass.before.ohlcv[bk]

\* a committed pass merged a batch into a persisted bucket whose high was above
\* the batch's prices, and created another bucket
C19_Witness ==
    /\ pass.kind = "committed"
    /\ \E bk \in TouchedBuckets(pass) :
         /\ bk \in DOMAIN pass.before.ohlcv
         /\ \A e \in Unfiltered(pass) :
              BucketOf(e) = bk => e.price < BigInt(pass.before.ohlcv[bk].high_price)
    /\ \E bk \in TouchedBuckets(pass) : bk \notin DOMAIN pass.before.ohlcv

(***************************************************************************)
(* C20                                                                     *)
(***************************************************************************)
\* C20: open-price pinning.  Every OHLCV bucket row a pass found is still there
\* after the pass with the same open price, whatever the pass folded into it
\* (so the open of a committed row is the same in every later state).
C20_OpenPricePinned ==
    \A bk \in DOMAIN pass.before.ohlcv :
        /\ bk \in DOMAIN ohlcv
        /\ ohlcv[bk].open_price = pass.before.ohlcv[bk].open_price

\* a committed pass folded into a persisted bucket only trades priced below its open
C20_Witness ==
    /\ pass.kind = "committed"
    /\ \E bk \in TouchedBuckets(pass) :
         /\ bk \in DOMAIN pass.before.ohlcv
         /\ \A e \in Unfiltered(pass) :
              BucketOf(e) = bk => e.price < BigInt(pass.before.ohlcv[bk].open_price)
         /\ ohlcv[bk].close_price # ohlcv[bk].open_price

(***************************************************************************)
(* C21                                                                     *)
(***************************************************************************)
\* the entries of the batch that fall into bucket bk
EntriesOfBucket(P, bk) == {e \in Unfiltered(P) : BucketOf(e) = bk}

\* sum of amount * price over the entries S
RECURSIVE ValueOfEntries(_)
ValueOfEntries(S) ==
    IF S = {} THEN 0
    ELSE LET e == CHOOSE x \in S : TRUE
         IN e.amount * e.price + ValueOfEntries(S \ {e})

\* C21: in-batch OHLCV aggregation.  In whatever order the batch of a committing
\* pass is listed, the fold holds one aggregate per touched (market, hour), keyed
\* by floor(blockTimestamp / 3600) * 3600, whose open is the price of the entry
\* earliest by (blockNumber, logIndex), whose close is the price of the latest
\* entry, whose high and low are the maximum and minimum price, whose volume, buy
\* volume and sell volume are the sums of amount * price (all, buys, sells) and
\* whose trade count is the number of entries.
C21_InBatchAggregation ==
    pass.kind = "committed" =>
        \A logs \in ListingsOf(pass.logs) :
            LET agg == FoldLogs(logs, pass.lastSyncedBlockNumber).ohlcvAgg
            IN /\ DOMAIN agg = TouchedBuckets(pass)
               /\ \A bk \in TouchedBuckets(pass) :
                    LET S == EntriesOfBucket(pass, bk)
                        a == agg[bk]
                    IN /\ a.bucketStart = bk[2]
                       /\ a.openPrice = EarliestOf(S).price
                       /\ a.closePrice = LatestOf(S).price
                       /\ \A e \in S : a.lowPrice <= e.price /\ e.price <= a.highPrice
                       /\ \E e \in S : a.highPrice = e.price
                       /\ \E e \in S : a.lowPrice = e.price
                       /\ a.volume = ValueOfEntries(S)
                       /\ a.buyVolume = ValueOfEntries({e \in S : e.isBuy})
                       /\ a.sellVolume = ValueOfEntries({e \in S : ~e.isBuy})
                       /\ a.tradeCount = Cardinality(S)
                       /\ Cardinality(S) = 1 =>
                            /\ a.highPrice = a.openPrice
                            /\ a.lowPrice = a.openPrice
                            /\ a.closePrice = a.openPrice

(***************************************************************************)
(* C22                                                                     *)
(***************************************************************************)
\* the place of a statement kind in the order the spec gives
RankOf(op) ==
    CASE op = "insert_trade" -> 1
      [] op \in {"upsert_holder", "delete_holder"} -> 2
      [] op = "upsert_persona" -> 3
      [] op = "upsert_ohlcv" -> 4
      [] op = "upsert_sync_status" -> 5

\* C22: commit order.  In whatever order the batch of a committing pass is
\* listed, the statement list handed to the atomic unit has all trade inserts
\* first, then all holder upserts and deletes, then all market snapshot upserts,
\* then all bucket upserts, then the one checkpoint advance (so every holder
\* write precedes every snapshot upsert), and after the commit the holder_count
\* of every market the pass touched is the number of its holder rows as the pass
\* left them.
C22_CommitOrder ==
    pass.kind = "committed" =>
        /\ \A logs \in ListingsOf(pass.logs) :
             LET ss == BatchStatements(FoldLogs(logs, pass.lastSyncedBlockNumber),
                                       pass.before.ohlcv, pass.toBlock)
             IN /\ \A i, j \in 1..Len(ss) : i < j => RankOf(ss[i].op) <= RankOf(ss[j].op)
                /\ \A i, j \in 1..Len(ss) :
                     (ss[i].op \in {"upsert_holder", "delete_holder"}
                        /\ ss[j].op = "upsert_persona") => i < j
                /\ ss[Len(ss)].op = "upsert_sync_status"
                /\ Cardinality({i \in 1..Len(ss) : ss[i].op = "upsert_sync_status"}) = 1
                /\ \A k \in 1..4 : \E i \in 1..Len(ss) : RankOf(ss[i].op) = k
        /\ \A m \in TouchedMarkets(pass) :
             personas[m].holder_count = Cardinality(HoldersOf(holders, m))

\* a committed pass with several trade inserts wrote and removed holder rows,
\* and the holder count of a market it touched differs from the count before
C22_Witness ==
    /\ pass.kind = "committed"
    /\ Cardinality(Unfiltered(pass)) >= 2
    /\ \E pr \in DOMAIN pass.before.holders : pr \notin DOMAIN holders
    /\ \E pr \in DOMAIN holders : pr \notin DOMAIN pass.before.holders
    /\ \E m \in TouchedMarkets(pass) :
         /\ m \in DOMAIN pass.before.personas
         /\ personas[m].holder_count # pass.before.personas[m].holder_count
         /\ personas[m].holder_count # Cardinality(HoldersOf(pass.before.holders, m))

(***************************************************************************)
(* C23                                                                     *)
(***************************************************************************)
\* C23: block-timestamp cache.  In whatever order the batch of a pass that ran
\* its loop is listed, the block-metadata collaborator is asked at most once per
\* block number, exactly for the blocks of the unfiltered entries (all above the
\* checkpoint C); as soon as an entry is folded its block's timestamp is known,
\* its trade statement carries it and its bucket is the hour of that timestamp;
\* and the TradeRecords of one block all carry the same timestamp.
C23_TimestampCache ==
    /\ pass.kind \in {"committed", "nothing_new"} =>
         \A logs \in ListingsOf(pass.logs) :
            LET C == pass.lastSyncedBlockNumber
                calls == FoldLogs(logs, C).getBlockCalls
            IN /\ \A i, j \in 1..Len(calls) : i # j => calls[i] # calls[j]
               /\ {calls[i] : i \in 1..Len(calls)}
                    = {e.blockNumber : e \in Unfiltered(pass)}
               /\ \A i \in 1..Len(calls) : calls[i] > C
               /\ \A n \in 1..Len(logs) :
                    LET e == logs[n]
                        g == FoldLogs(SubSeq(logs, 1, n), C)
                    IN e.blockNumber > C =>
                         /\ e.blockNumber \in DOMAIN g.blockTimestampCache
                         /\ \E i \in 1..Len(g.getBlockCalls) :
                                g.getBlockCalls[i] = e.blockNumber
                         /\ LET ts == g.blockTimestampCache[e.blockNumber]
                                s == g.tradeStatements[Len(g.tradeStatements)]
                            IN /\ ts = GetBlockTimestamp(e.blockNumber)
                               /\ s.tx_hash = e.transactionHash
                               /\ s.log_index = e.logIndex
                               /\ s.block_timestamp = ts
                               /\ <<e.persona, BucketStart(ts)>> \in DOMAIN g.ohlcvAgg
    /\ \A k1, k2 \in DOMAIN trades :
         trades[k1].block_number = trades[k2].block_number
            => trades[k1].block_timestamp = trades[k2].block_timestamp

\* a committed pass folded two entries of one block and its window also held
\* an entry of a block at or below the checkpoint
C23_Witness ==
    /\ pass.kind = "committed"
    /\ \E x, y \in Unfiltered(pass) : x # y /\ x.blockNumber = y.blockNumber
    /\ \E z \in pass.logs : z.blockNumber <= pass.lastSyncedBlockNumber
    /\ \E k1, k2 \in DOMAIN trades :
         /\ k1 # k2
         /\ trades[k1].block_number = trades[k2].block_number
         /\ trades[k1].block_number > pass.lastSyncedBlockNumber

(***************************************************************************)
(* C25 (checked under SpecFixedHead: one chain head H >= C, every pass     *)
(* runs to its end, and the cron trigger keeps starting passes)            *)
(***************************************************************************)
\* a pass started below the head committed min(C + STEP, H), above C
StepsTowardsHead ==
    (PassWrote /\ pass.lastSyncedBlockNumber < pass.currentBlock) =>
        /\ LastSyncedBlockNumber
             = Min(pass.lastSyncedBlockNumber + BLOCK_STEP, pass.currentBlock)
        /\ LastSyncedBlockNumber > pass.lastSyncedBlockNumber

\* the checkpoint is the chain head of the last pass
CaughtUp == PassWrote /\ LastSyncedBlockNumber = pass.currentBlock

\* C25: liveness of the checkpoint.  With the head fixed at H >= C and every
\* pass succeeding, each pass started with C < H commits the checkpoint
\* min(C + STEP, H) > C, with or without logs in its window, and after finitely
\* many passes the checkpoint equals H and stays at H.
C25_CheckpointReachesHead == [](StepsTowardsHead) /\ <>[](CaughtUp)

\* the checkpoint reached the head in a third pass, over a window without logs
C25_Witness ==
    /\ now >= 3
    /\ pass.kind = "no_logs"
    /\ pass.lastSyncedBlockNumber < pass.currentBlock
    /\ CaughtUp

(***************************************************************************)
(* C26                                                                     *)
(***************************************************************************)
\* HolderBalance tables to apply a write set to: any rows for the pairs of two
\* markets and two holders, with a balance no event reports
HolderTables ==
    LET pairs == {"M1", "M2"} \X {"H1", "H2"}
    IN {[k \in K |-> [balance |-> ToText(7), last_trade_price |-> ToText(9),
                      last_trade_is_buy |-> 1, updated_at |-> 0]] : K \in SUBSET pairs}

\* the HolderBalance table h after the statements ss ran at time at
HoldersAfter(h, ss, at) == Batch([Database EXCEPT !.holders = h], ss, at).holders

\* a table without its wall-clock column
Balances(h) == [k \in DOMAIN h |-> WithoutColumn(h[k], "updated_at")]

\* C26: holder write resolution is idempotent.  In whatever order the batch of a
\* committing pass is listed, applying its holder writes twice to a HolderBalance
\* table (any of HolderTables, the table before the pass, the table after it)
\* leaves the rows and balances that applying them once leaves.
C26_HolderWritesIdempotent ==
    pass.kind = "committed" =>
        \A ss \in {HolderStatements(FoldLogs(logs, pass.lastSyncedBlockNumber)) :
                      logs \in ListingsOf(pass.logs)} :
            \A h \in HolderTables \cup {pass.before.holders, holders} :
                LET once == HoldersAfter(h, ss, now)
                IN Balances(HoldersAfter(once, ss, now + 1)) = Balances(once)

\* a committed pass deleted a holder row that existed and wrote another
C26_Witness ==
    /\ pass.kind = "committed"
    /\ \E pr \in TouchedPairs(pass) :
         pr \in DOMAIN pass.before.holders /\ pr \notin DOMAIN holders
    /\ \E pr \in TouchedPairs(pass) :
         /\ pr \in DOMAIN holders
         /\ \E h \in HolderTables : pr \in DOMAIN h /\ h[pr].balance # holders[pr].balance

(***************************************************************************)
(* C27 (checked under SpecSteadyHead: the log collaborator returns every   *)
(* event of the range, the chain head is never below the checkpoint)       *)
(***************************************************************************)
\* the chain events the checkpoint covers, counted from the initial checkpoint
Covered ==
    {e \in chain : /\ InitialCheckpoint < e.blockNumber
                   /\ e.blockNumber <= LastSyncedBlockNumber}

\* the TradeRecord of event e is stored with the fields of e
Recorded(e) ==
    /\ KeyOf(e) \in DOMAIN trades
    /\ LET t == trades[KeyOf(e)]
       IN /\ t.block_number = e.blockNumber
          /\ t.persona_address = e.persona
          /\ t.trader_address = e.trader
          /\ t.is_buy = BoolToInt(e.isBuy)
          /\ BigInt(t.amount) = e.amount
          /\ BigInt(t.price) = e.price
          /\ BigInt(t.supply_after) = e.supply
          /\ BigInt(t.trader_balance_after) = e.traderBalance

\* C27: exactly the covered events are recorded.  From the initial checkpoint C0
\* and empty tables, in every state the TradeRecords are those of the chain
\* events with C0 < blockNumber <= checkpoint, one each and no other; and every
\* planned window has fromBlock <= C + 1.
C27_CoveredEventsRecorded ==
    /\ HasCheckpoint =>
         /\ \A e \in Covered : Recorded(e)
         /\ DOMAIN trades = {KeyOf(e) : e \in Covered}
    /\ PassPlanned => pass.fromBlock <= pass.lastSyncedBlockNumber + 1

\* after two passes that wrote, the later over a window that reaches back below
\* the checkpoint and holds an event recorded before, the TradeRecords of the
\* earlier and of the later pass are stored
C27_Witness ==
    /\ now >= 2
    /\ pass.kind = "committed"
    /\ pass.before.trades # EmptyTable
    /\ pass.fromBlock < pass.lastSyncedBlockNumber
    /\ \E e \in pass.logs : e.blockNumber <= pass.lastSyncedBlockNumber
    /\ Cardinality(DOMAIN trades) > Cardinality(DOMAIN pass.before.trades)
    /\ Cardinality(DOMAIN trades) = Cardinality(chain)

(***************************************************************************)
(* C28                                                                     *)
(***************************************************************************)
\* the keys of the TradeRecords of market m in table t
RecordsOfMarket(t, m) == {k \in DOMAIN t : t[k].persona_address = m}

\* the key (tx_hash, log_index) in K of the TradeRecord of t that is maximal by
\* (blockNumber, logIndex)
LatestKey(t, K) ==
    CHOOSE x \in K :
        \A y \in K \ {x} : Later(t[x].block_number, x[2], t[y].block_number, y[2])

\* C28: the snapshot tracks the globally latest trade.  In every state, every
\* market with a snapshot row has the last block number, last tx hash, last
\* price, last direction and current supply of its TradeRecord maximal by
\* (blockNumber, logIndex); its last_block_number does not exceed the
\* checkpoint, and no pass lowers it.
C28_SnapshotTracksLatest ==
    /\ \A m \in DOMAIN personas :
         /\ RecordsOfMarket(trades, m) # {}
         /\ LET k == LatestKey(trades, RecordsOfMarket(trades, m))
                t == trades[k]
            IN /\ personas[m].last_block_number = t.block_number
               /\ personas[m].last_tx_hash = k[1]
               /\ personas[m].last_price = t.price
               /\ personas[m].last_is_buy = t.is_buy
               /\ personas[m].current_supply = t.supply_after
         /\ personas[m].last_block_number <= LastSyncedBlockNumber
    /\ \A m \in DOMAIN pass.before.personas :
         /\ m \in DOMAIN personas
         /\ personas[m].last_block_number >= pass.before.personas[m].last_block_number

(***************************************************************************)
(* C29                                                                     *)
(***************************************************************************)
\* the keys of the TradeRecords of (market, holder) pr
RecordsOfPair(pr) ==
    {k \in DOMAIN trades : /\ trades[k].persona_address = pr[1]
                           /\ trades[k].trader_address = pr[2]}

\* C29: holder rows mirror the latest recorded trade.  In every state, for every
\* (market, holder) with a TradeRecord, a HolderBalance row exists iff the
\* trader_balance_after of the pair's TradeRecord maximal by (blockNumber,
\* logIndex) is nonzero, and then its balance, last trade price and last trade
\* direction are that record's.
C29_HolderMirrorsLatest ==
    \A pr \in {<<trades[k].persona_address, trades[k].trader_address>> : k \in DOMAIN trades} :
        LET t == trades[LatestKey(trades, RecordsOfPair(pr))]
        IN /\ pr \in DOMAIN holders <=> BigInt(t.trader_balance_after) # 0
           /\ pr \in DOMAIN holders =>
                /\ holders[pr].balance = t.trader_balance_after
                /\ holders[pr].last_trade_price = t.price
                /\ holders[pr].last_trade_is_buy = t.is_buy

(***************************************************************************)
(* C30                                                                     *)
(***************************************************************************)
\* C30: bucket well-formedness.  In every state, every persisted OHLCV bucket
\* has low <= open <= high, low <= close <= high, volume = buy volume + sell
\* volume and trade count >= 1.
C30_BucketWellFormed ==
    \A bk \in DOMAIN ohlcv :
        LET b == ohlcv[bk]
        IN /\ BigInt(b.low_price) <= BigInt(b.open_price)
           /\ BigInt(b.open_price) <= BigInt(b.high_price)
           /\ BigInt(b.low_price) <= BigInt(b.close_price)
           /\ BigInt(b.close_price) <= BigInt(b.high_price)
           /\ BigInt(b.volume_wei) = BigInt(b.buy_volume_wei) + BigInt(b.sell_volume_wei)
           /\ b.trade_count >= 1

\* a committed pass merged its batch into a bucket an earlier pass had written;
\* the bucket holds buys and sells and its low lies below its high
C30_Witness ==
    /\ pass.kind = "committed"
    /\ \E bk \in TouchedBuckets(pass) \cap DOMAIN pass.before.ohlcv :
         /\ ohlcv[bk].trade_count >= 3
         /\ BigInt(ohlcv[bk].low_price) < BigInt(ohlcv[bk].high_price)
         /\ BigInt(ohlcv[bk].close_price) < BigInt(ohlcv[bk].open_price)
         /\ BigInt(ohlcv[bk].buy_volume_wei) > 0
         /\ BigInt(ohlcv[bk].sell_volume_wei) > 0

(***************************************************************************)
(* C24 (checked under SpecOverlap: two invocations whose steps interleave) *)
(***************************************************************************)
\* the database before either invocation
InitialDatabase ==
    [syncStatus |-> Put(EmptyTable, CONTRACT_TYPE,
                        [last_synced_block_number |-> InitialCheckpoint,
                         last_synced_at |-> 0]),
     trades |-> EmptyTable, holders |-> EmptyTable,
     personas |-> EmptyTable, ohlcv |-> EmptyTable]

\* the bucket table after the pass of invocation a and then the pass of
\* invocation b, one after the other, each against the head it saw
SequentialOhlcv(a, b) ==
    SyncPersonaFragmentTrades(
        SyncPersonaFragmentTrades(InitialDatabase, flight[a].currentBlock, 1),
        flight[b].currentBlock, 2).ohlcv

\* volume or trade count of bucket bk is not what a sequential execution of the
\* two passes, in either order, leaves
DiffersFromSequential(bk) ==
    \A s \in {SequentialOhlcv(1, 2), SequentialOhlcv(2, 1)} :
        \/ bk \notin DOMAIN s
        \/ s[bk].trade_count # ohlcv[bk].trade_count
        \/ s[bk].volume_wei # ohlcv[bk].volume_wei

\* the entries invocation w folded into bucket bk
FlightEntries(w, bk) ==
    {e \in LogsInRange(PlanFromBlock(FlightToBlock(w)), FlightToBlock(w)) :
        /\ ~SkipLog(e, flight[w].lastSyncedBlockNumber)
        /\ BucketOf(e) = bk}

BothDone == \A w \in Workers : flight[w].pc = "done"

\* the invocation that finished first, and the one that finished last
FirstDone == CHOOSE w \in Workers : flight[w].doneAt = 1

LastDone == CHOOSE w \in Workers : flight[w].doneAt = 2

\* both read the checkpoint before either wrote
Interleaved == \A w \in Workers : flight[w].beganAt = 0

\* the invocation that finished last had read bucket bk before the other one
\* wrote entries into it that its own batch lacks: its upsert discards them
IncrementLost(bk) ==
    /\ Interleaved
    /\ flight[LastDone].readAt = 0
    /\ FlightEntries(LastDone, bk) # {}
    /\ FlightEntries(FirstDone, bk) \ FlightEntries(LastDone, bk) # {}

\* the invocation that finished last read bucket bk after the other one wrote
\* entries into it that its own batch holds too: they are added again
IncrementTwice(bk) ==
    /\ Interleaved
    /\ flight[LastDone].readAt = 1
    /\ FlightEntries(LastDone, bk) \cap FlightEntries(FirstDone, bk) # {}

\* C24: concurrency hazard.  No lock serialises two invocations.  When both
\* have run to their end: if they did not interleave the bucket table is that
\* of the sequential execution in their order; if they interleaved (both read
\* the checkpoint before either wrote), a bucket whose increment was lost has
\* fewer trades counted than TradeRecords stored, a bucket whose increment was
\* applied twice has more, in both cases volume or trade count differ from what
\* either sequential execution leaves, and any other bucket is as one of the
\* sequential executions leaves it.
C24_ConcurrencyHazard ==
    BothDone =>
        /\ ~Interleaved => ohlcv = SequentialOhlcv(FirstDone, LastDone)
        /\ \A bk \in DOMAIN ohlcv :
             /\ IncrementLost(bk) =>
                  /\ ohlcv[bk].trade_count < Cardinality(RecordsOfBucket(bk))
                  /\ DiffersFromSequential(bk)
             /\ IncrementTwice(bk) =>
                  /\ ohlcv[bk].trade_count > Cardinality(RecordsOfBucket(bk))
                  /\ DiffersFromSequential(bk)
             /\ (Interleaved /\ ~IncrementLost(bk) /\ ~IncrementTwice(bk)) =>
                  ~DiffersFromSequential(bk)

\* two interleaved invocations have both committed, and a bucket has lost the
\* increment of the one that committed first
C24_Witness ==
    /\ BothDone
    /\ Interleaved
    /\ \E bk \in DOMAIN ohlcv :
         /\ IncrementLost(bk)
         /\ ohlcv[bk].trade_count < Cardinality(RecordsOfBucket(bk))
         /\ DiffersFromSequential(bk)

====
